---- MODULE Spec2Model ----
(***************************************************************************)
(* Server-side control plane of the p0tion Phase 2 ceremony:               *)
(*   coordinateCeremonyParticipant / coordinate   (queue coordinator)      *)
(*   verifycontribution                           (contribution verifier)  *)
(*   refreshParticipantAfterContributionVerification (refresher)           *)
(* The Store is the documents below.  Every handler invocation reads the   *)
(* Store in one step and commits its write batch in a later step, so the   *)
(* invocations interleave as the platform lets them.                       *)
(***************************************************************************)
EXTENDS Integers, Sequences, FiniteSets, TLC

\* ------------------------------------------------------------------ bounds
\* Spec
\* contribution documents the ceremony may hold, all circuits together
MaxDocs == 2
\* verifycontribution invocations in flight at once
MaxVerifiers == 2
\* entries of participant.contributions
MaxContributions == 1
\* SpecTimeout
TimeoutDocs == 1
TimeoutContributions == 2
\* contributors that may time out
MaxTimeouts == 1
\* SpecClosing
ClosingDocs == 2
ClosingContributions == 1
\* SpecCalls
CallsDocs == 1
CallsContributions == 1
\* SpecRedelivery
RedeliveryDocs == 1
RedeliveryContributions == 1
\* SpecFailures
FailuresDocs == 1
FailuresContributions == 1
\* SpecClock
ClockDocs == 1
ClockContributions == 1
ClockTimeouts == 1
\* SpecLive
LiveDocs == 2
LiveContributions == 1
\* SpecSolo
SoloDocs == 3
\* computationTime of the contribution to the first circuit
FirstComputationTime == 4
SoloContributions == 2
\* SpecQueue
QueueDocs == 2
QueueTimeouts == 1
\* SpecFormat: the largest run of small arguments of formatZkeyIndex
FormatSmall == 60
\* SpecFinalize
FinalizeDocs == 4
FinalizeContributions == 3
\* SpecTimings
\* valid contributions a circuit may already hold
TimingsCompleted == 2
TimingsDocs == 3
\* last instant of the Clock
MaxTime == 2

\* the users of the ceremony
Users == {"p1", "p2"}
\* the participant holding the coordinator role claim
Coordinator == "p1"
\* computationTime values a contributor may report
CompTimes == {1}
\* fullContribution times (verificationStartedAt - contributionStartedAt)
FullTimes == {100, 300, 500}
\* computationTime values the contributors reported
ComputationTimes == {0, 4, 6}

\* "" is the empty currentContributor / the unset status of coordinate()
NoOne == ""
\* unset `doc` of a participant contribution entry
NoDoc == 0

\* ParticipantStatus
WAITING == "WAITING"
READY == "READY"
CONTRIBUTING == "CONTRIBUTING"
CONTRIBUTED == "CONTRIBUTED"
DONE == "DONE"
FINALIZING == "FINALIZING"
TIMEDOUT == "TIMEDOUT"
\* ParticipantContributionStep
DOWNLOADING == "DOWNLOADING"
COMPUTING == "COMPUTING"
UPLOADING == "UPLOADING"
VERIFYING == "VERIFYING"
COMPLETED == "COMPLETED"
\* CeremonyState
OPENED == "OPENED"
CLOSED == "CLOSED"

\* ------------------------------------------------------------ zkey index
\* firstZkeyIndex: the genesis index, whose length is the width of every index
firstZkeyIndex == <<"0", "0", "0", "0", "0">>
\* finalContributionIndex: the token used in place of the index when finalizing
finalContributionIndex == <<"f", "i", "n", "a", "l">>

DigitChar(d) == <<"0", "1", "2", "3", "4", "5", "6", "7", "8", "9">>[d + 1]

\* progress.toString()
RECURSIVE NumberToString(_)
NumberToString(n) ==
    IF n < 10 THEN <<DigitChar(n)>>
    ELSE NumberToString(n \div 10) \o <<DigitChar(n % 10)>>

\* a padding that would put the zeros after the digits: what C28 excludes
RECURSIVE PadIndex_ZerosLast(_)
PadIndex_ZerosLast(index) ==
    IF Len(index) < Len(firstZkeyIndex) THEN PadIndex_ZerosLast(index \o <<"0">>) ELSE index

\* while (index.length < firstZkeyIndex.length) index = `0${index}`
RECURSIVE PadIndex(_)
PadIndex(index) ==
    IF Len(index) < Len(firstZkeyIndex) THEN PadIndex(<<"0">> \o index) ELSE index

formatZkeyIndex(progress) == PadIndex(NumberToString(progress))

\* --------------------------------------------------------------- timings
\* A timing is the number num / 2^exp: the averages of the verifier are JavaScript
\* numbers, and (prev + sample) / 2 halves exactly.
Timing(n) == [num |-> n, exp |-> 0]

RECURSIVE Pow2(_)
Pow2(k) == IF k = 0 THEN 1 ELSE 2 * Pow2(k - 1)

RECURSIVE Reduce(_)
Reduce(t) ==
    IF t.exp > 0 /\ t.num % 2 = 0 THEN Reduce([num |-> t.num \div 2, exp |-> t.exp - 1])
    ELSE t

\* a + b
TimingAdd(a, b) ==
    LET e == IF a.exp > b.exp THEN a.exp ELSE b.exp
    IN Reduce([num |-> a.num * Pow2(e - a.exp) + b.num * Pow2(e - b.exp), exp |-> e])

\* a / 2
TimingHalf(a) == Reduce([num |-> a.num, exp |-> a.exp + 1])

\* a mean that would halve the first sample too: what C21 excludes
newAvg_AlwaysHalved(avg, sample) == TimingHalf(TimingAdd(avg, sample))

\* avg > 0 ? (avg + sample) / 2 : sample
newAvg(avg, sample) ==
    IF avg.num > 0 THEN TimingHalf(TimingAdd(avg, sample)) ELSE sample

\* ------------------------------------------------------------------ state
VARIABLES
    ceremonyState,     \* ceremony document: state
    circuits,          \* circuit documents: waitingQueue, avgTimings
    participants,      \* participant documents
    contributionDocs,  \* contribution documents of each circuit, in creation order
    now,               \* the Clock
    timeouts,          \* contributors timed out so far
    coordTriggers,     \* participant updates not yet handled by coordinateCeremonyParticipant
    coordRunning,      \* coordinate() invocations that read the circuit and did not commit
    verifyRunning,     \* verifycontribution invocations past their reads
    verifyReturn,      \* what the last ended verifycontribution call gave its caller
    refreshTriggers,   \* created contribution documents not yet handled by the refresher
    refreshRunning,    \* refresher invocations that read the participant and did not commit
    redelivery,        \* the coordinator invocation the platform may deliver once more
    staleCounters,     \* history: circuits whose counters a commit replaced by ones read before another commit changed them
    finalizeReturn,    \* what the last ended finalizeCircuit call gave its caller
    formatted,         \* the last call of formatZkeyIndex: its argument and its result
    blobStore,         \* Blob Store: the contribution zkeys stored, by circuit and zkey index
    unsettled          \* history: participants named by a document created while they were not FINALIZING, not CONTRIBUTED/DONE with step COMPLETED since

vars == <<ceremonyState, circuits, participants, contributionDocs, now, timeouts, coordTriggers,
          coordRunning, verifyRunning, verifyReturn, refreshTriggers, refreshRunning,
          redelivery, staleCounters, unsettled, blobStore, finalizeReturn, formatted>>

Idle == [idle |-> TRUE]
NoReturn == [outcome |-> "none"]
NotFormatted == <<>>
\* how a verifycontribution invocation ended: what the caller got, whether Step (1)
\* applied to the caller, whether the worker was started, whether its stop was
\* attempted, and the call that threw ("none" when the body ran to its end)
Return(outcome, caller, circuitId, eligible, workerStarted, workerStopped, thrownBy) ==
    [outcome |-> outcome, caller |-> caller, circuit |-> circuitId, eligible |-> eligible,
     workerStarted |-> workerStarted, workerStopped |-> workerStopped, thrownBy |-> thrownBy]
NoRedelivery == [pending |-> FALSE, delivered |-> FALSE]

\* the documents of the Store: participants by user id, circuits by sequencePosition
\* (getCircuitDocumentByPosition(ceremonyId, contributionProgress))
Participants == DOMAIN participants
Circuits == DOMAIN circuits
\* circuits.length, as getCeremonyCircuits gives it
NumCircuits == Cardinality(Circuits)
Slots == DOMAIN verifyRunning

emptyQueue ==
    [contributors |-> <<>>, currentContributor |-> NoOne,
     completedContributions |-> 0, failedContributions |-> 0]

zeroTimings ==
    [contributionComputation |-> Timing(0), fullContribution |-> Timing(0),
     verifyCloudFunction |-> Timing(0)]

newParticipant ==
    [status |-> WAITING, contributionStep |-> DOWNLOADING, contributionProgress |-> 0,
     contributionStartedAt |-> 0, verificationStartedAt |-> 0, contributions |-> <<>>]

\* an opened ceremony of numCircuits circuits that every user joined
\* p has status CONTRIBUTED or DONE with contributionStep COMPLETED in docs
SettledIn(docs, p) ==
    /\ docs[p].status \in {CONTRIBUTED, DONE}
    /\ docs[p].contributionStep = COMPLETED

\* the history of unsettled participants after a step that leaves the
\* participant documents as docs and created documents naming those of created
StillUnsettled(docs, created) ==
    {p \in unsettled \cup created : ~SettledIn(docs, p)}

InitWith(users, numCircuits, slots) ==
    /\ ceremonyState = OPENED
    /\ circuits = [c \in 1 .. numCircuits |->
                       [waitingQueue |-> emptyQueue, avgTimings |-> zeroTimings]]
    /\ participants = [p \in users |-> newParticipant]
    /\ contributionDocs = [c \in 1 .. numCircuits |-> <<>>]
    /\ now = 1
    /\ timeouts = 0
    /\ coordTriggers = {}
    /\ coordRunning = {}
    /\ verifyRunning = [s \in 1 .. slots |-> Idle]
    /\ verifyReturn = NoReturn
    /\ finalizeReturn = NoReturn
    /\ formatted = [progress |-> 0, index |-> NotFormatted]
    /\ refreshTriggers = {}
    /\ refreshRunning = {}
    /\ redelivery = NoRedelivery
    /\ staleCounters = {}
    /\ unsettled = {}
    /\ blobStore = {}

RECURSIVE SumLen(_, _)
SumLen(f, S) ==
    IF S = {} THEN 0
    ELSE LET c == CHOOSE x \in S : TRUE IN Len(f[c]) + SumLen(f, S \ {c})

\* contribution documents in the Store; the next auto-id is NumDocs + 1
NumDocs == SumLen(contributionDocs, Circuits)

\* ---------------------------------------------- coordinateCeremonyParticipant
\* what the trigger's before/after snapshots give the handler
Snapshot(p) ==
    [status |-> p.status, contributionStep |-> p.contributionStep,
     contributionProgress |-> p.contributionProgress]

participantReadyForFirstContribution(before, after) ==
    after.status = READY /\ before.contributionProgress = 0

\* a test that would not look at the new status: what C36 excludes
participantResumingContributionAfterTimeout_AnyStatus(before, after) ==
    before.contributionProgress = after.contributionProgress

participantResumingContributionAfterTimeout(before, after) ==
    after.status = READY /\ before.contributionProgress = after.contributionProgress

participantReadyForNextContribution(before, after) ==
    /\ after.status = READY
    /\ before.contributionProgress = after.contributionProgress - 1
    /\ before.contributionProgress # 0

participantCompletedEveryCircuitContribution(before, after) ==
    after.status = DONE /\ before.status # DONE

participantCompletedContribution(before, after) ==
    /\ before.contributionProgress = after.contributionProgress
    /\ before.status = CONTRIBUTING
    /\ before.contributionStep = VERIFYING
    /\ after.status = CONTRIBUTED
    /\ after.contributionStep = COMPLETED

\* Step (2): "single" = coordinate(changedParticipant, circuit, true),
\* "multi" = coordinate(changedParticipant, circuit, false, ceremonyId), "none" = ignored
Classify(before, after) ==
    IF \/ participantReadyForFirstContribution(before, after)
       \/ participantResumingContributionAfterTimeout(before, after)
       \/ participantReadyForNextContribution(before, after)
    THEN "single"
    ELSE IF \/ participantCompletedContribution(before, after)
            \/ participantCompletedEveryCircuitContribution(before, after)
    THEN "multi"
    ELSE "none"

\* the circuit the handler fetches with getCircuitDocumentByPosition
TriggerCircuit(before, after) ==
    IF Classify(before, after) = "single" THEN after.contributionProgress
    ELSE before.contributionProgress

\* The onUpdate event of a participant write.  An update that is none of the
\* coordination events makes the handler return without reading or writing the
\* Store, so only the others are kept.  n tells apart equal updates that are
\* pending at the same time.
NextN(id, before, after) ==
    LET used == {m.n : m \in {x \in coordTriggers \cup {r.msg : r \in coordRunning} :
                                /\ x.id = id
                                /\ x.before = before
                                /\ x.after = after}}
    IN CHOOSE k \in 1 .. (Cardinality(used) + 1) : k \notin used

OnUpdate(id, old, new) ==
    LET before == Snapshot(old)
        after == Snapshot(new)
    IN IF Classify(before, after) = "none" THEN {}
       ELSE {[id |-> id, before |-> before, after |-> after, n |-> NextN(id, before, after)]}

\* ------------------------------------------------------------- coordinate
\* A participant update prepared in a batch: id = NoOne when none is prepared,
\* setStep = FALSE when contributionStep is not among the updated fields.
NoWrite ==
    [id |-> NoOne, status |-> "", setStep |-> FALSE, contributionStep |-> "",
     contributionStartedAt |-> 0]

\* a Scenario (A) that would make the participant current contributor without
\* putting it in the queue: what C16 excludes
ScenarioA_NotEnqueued(participantId, waitingQueue) ==
    [contributors |-> waitingQueue.contributors,
     currentContributor |-> participantId,
     status |-> CONTRIBUTING, contributionStep |-> DOWNLOADING]

\* Scenario (A): the waiting queue is empty
ScenarioA(participantId, waitingQueue) ==
    [contributors |-> Append(waitingQueue.contributors, participantId),
     currentContributor |-> participantId,
     status |-> CONTRIBUTING, contributionStep |-> DOWNLOADING]

\* Scenario (A), participantResumingAfterTimeoutExpiration
ScenarioResume(participantId, waitingQueue) ==
    [contributors |-> waitingQueue.contributors,
     currentContributor |-> "",
     status |-> CONTRIBUTING, contributionStep |-> DOWNLOADING]

\* a Scenario (B) that would name the newcomer current contributor while the
\* head of the queue stays: what C2 excludes
ScenarioB_NewcomerTakesOver(participantId, waitingQueue) ==
    [contributors |-> Append(waitingQueue.contributors, participantId),
     currentContributor |-> participantId,
     status |-> WAITING, contributionStep |-> ""]

\* Scenario (B): someone else is the current contributor
ScenarioB(participantId, waitingQueue) ==
    [contributors |-> Append(waitingQueue.contributors, participantId),
     currentContributor |-> waitingQueue.currentContributor,
     status |-> WAITING, contributionStep |-> ""]

\* no scenario applies: the initial values of the new* variables
ScenarioNone(participantId, waitingQueue) ==
    [contributors |-> waitingQueue.contributors,
     currentContributor |-> "",
     status |-> "", contributionStep |-> ""]

\* the branch taken when isSingleParticipantCoordination
SingleScenario(participantId, status, waitingQueue) ==
    LET noCurrentContributor == waitingQueue.currentContributor = NoOne
        noContributorsInWaitingQueue == Len(waitingQueue.contributors) = 0
        emptyWaitingQueue == noCurrentContributor /\ noContributorsInWaitingQueue
        participantIsCurrentContributor == waitingQueue.currentContributor = participantId
        participantIsReady == status = READY
    IN IF emptyWaitingQueue THEN ScenarioA(participantId, waitingQueue)
       ELSE IF participantIsCurrentContributor /\ participantIsReady
       THEN ScenarioResume(participantId, waitingQueue)
       ELSE IF ~participantIsCurrentContributor
       THEN ScenarioB(participantId, waitingQueue)
       ELSE ScenarioNone(participantId, waitingQueue)

\* a participant update that would stamp contributionStartedAt in every
\* scenario: what C17 excludes
SingleWrite_AlwaysStamped(participantId, scenario, t) ==
    [id |-> participantId,
     status |-> scenario.status,
     setStep |-> scenario.contributionStep # "",
     contributionStep |-> scenario.contributionStep,
     contributionStartedAt |-> t]

\* the participant update of the single-participant branch
SingleWrite(participantId, scenario, t) ==
    [id |-> participantId,
     status |-> scenario.status,
     setStep |-> scenario.contributionStep # "",
     contributionStep |-> scenario.contributionStep,
     contributionStartedAt |-> IF scenario.status = CONTRIBUTING THEN t ELSE 0]

\* a shift() that would remove no one: what C29 excludes
Shift_RemovesNoOne(contributors) == contributors

\* newContributors.shift()
Shift(contributors) == IF Len(contributors) = 0 THEN contributors ELSE Tail(contributors)

\* a Scenario (C) that would leave the head in the queue: what C18 excludes
ScenarioC_HeadStays(waitingQueue) ==
    [contributors |-> waitingQueue.contributors,
     currentContributor |-> IF Len(waitingQueue.contributors) > 0
                            THEN Head(waitingQueue.contributors) ELSE ""]

\* Scenario (C) and step (C.1): the queue after the head left
ScenarioC(waitingQueue) ==
    LET newContributors == Shift(waitingQueue.contributors)
    IN [contributors |-> newContributors,
        currentContributor |-> IF Len(newContributors) > 0 THEN Head(newContributors) ELSE ""]

\* (C.1) the update of the new current contributor's document
BatonWrite(scenario, t) ==
    IF scenario.currentContributor = "" THEN NoWrite
    ELSE [id |-> scenario.currentContributor, status |-> CONTRIBUTING, setStep |-> TRUE,
          contributionStep |-> DOWNLOADING, contributionStartedAt |-> t]

\* coordinate(participant, circuit, isSingleParticipantCoordination, ceremonyId):
\* the batch it commits, from the participant snapshot it was given (id, status,
\* contributionStep), the waitingQueue it read and the Clock.
coordinate(participantId, status, contributionStep, waitingQueue, isSingle, t) ==
    LET participantIsCurrentContributor == waitingQueue.currentContributor = participantId
        participantCompletedOneOrAllContributions ==
            (status = CONTRIBUTED \/ status = DONE) /\ contributionStep = COMPLETED
    IN IF isSingle THEN
           LET sc == SingleScenario(participantId, status, waitingQueue)
           IN [waitingQueue |-> [waitingQueue EXCEPT !.contributors = sc.contributors,
                                                      !.currentContributor = sc.currentContributor],
               write |-> SingleWrite(participantId, sc, t)]
       ELSE IF participantIsCurrentContributor /\ participantCompletedOneOrAllContributions THEN
           LET sc == ScenarioC(waitingQueue)
           IN [waitingQueue |-> [waitingQueue EXCEPT !.contributors = sc.contributors,
                                                      !.currentContributor = sc.currentContributor],
               write |-> BatonWrite(sc, t)]
       ELSE [waitingQueue |-> [waitingQueue EXCEPT !.currentContributor = ""],
             write |-> NoWrite]

\* batch.update(ref, fields) on a participant document
ApplyWrite(doc, w) ==
    [doc EXCEPT !.status = w.status,
                !.contributionStep = IF w.setStep THEN w.contributionStep ELSE @,
                !.contributionStartedAt = w.contributionStartedAt]

\* the participant documents after a batch holding the update w
WithWrite(w) ==
    IF w.id = NoOne THEN participants
    ELSE [participants EXCEPT ![w.id] = ApplyWrite(@, w)]

\* the onUpdate events of that batch
WriteEvents(w) ==
    IF w.id = NoOne THEN {}
    ELSE OnUpdate(w.id, participants[w.id], ApplyWrite(participants[w.id], w))

\* coordinateCeremonyParticipant, Step (2): fetch the circuit by position
CoordRead(m) ==
    /\ m \in coordTriggers
    /\ TriggerCircuit(m.before, m.after) \in Circuits
    /\ coordTriggers' = coordTriggers \ {m}
    /\ coordRunning' = coordRunning \cup
           {[msg |-> m, circuit |-> TriggerCircuit(m.before, m.after),
             waitingQueue |-> circuits[TriggerCircuit(m.before, m.after)].waitingQueue]}
    /\ redelivery' = NoRedelivery
    /\ finalizeReturn' = NoReturn
    /\ UNCHANGED formatted
    /\ verifyReturn' = NoReturn
    /\ UNCHANGED <<blobStore, unsettled, staleCounters, ceremonyState, circuits, participants, contributionDocs, now, timeouts,
                   verifyRunning, refreshTriggers, refreshRunning>>

\* the batch of invocation r, as coordinate() builds it
CoordBatch(r) ==
    coordinate(r.msg.id, r.msg.after.status, r.msg.after.contributionStep, r.waitingQueue,
               Classify(r.msg.before, r.msg.after) = "single", now)

Counters(waitingQueue) ==
    <<waitingQueue.completedContributions, waitingQueue.failedContributions>>

\* the circuits whose counters were overwritten with stale ones, after a commit
\* that replaces circuit c's waitingQueue by one made from the snapshot read
StaleAfter(c, read) ==
    IF Counters(read) # Counters(circuits[c].waitingQueue)
    THEN staleCounters \cup {c} ELSE staleCounters

\* await batch.commit() of coordinate()
CoordCommitBatch(r) ==
    LET b == CoordBatch(r)
    IN /\ circuits' = [circuits EXCEPT ![r.circuit].waitingQueue = b.waitingQueue]
       /\ staleCounters' = StaleAfter(r.circuit, r.waitingQueue)
       /\ participants' = WithWrite(b.write)
       /\ unsettled' = StillUnsettled(WithWrite(b.write), {})
       /\ coordRunning' = coordRunning \ {r}
       /\ coordTriggers' = coordTriggers \cup WriteEvents(b.write)
       /\ finalizeReturn' = NoReturn
       /\ UNCHANGED formatted
       /\ verifyReturn' = NoReturn
       /\ UNCHANGED <<blobStore, ceremonyState, contributionDocs, now, timeouts, verifyRunning,
                      refreshTriggers, refreshRunning>>

CoordCommit(r) ==
    /\ r \in coordRunning
    /\ CoordCommitBatch(r)
    /\ redelivery' = NoRedelivery

\* the same commit, of an invocation whose event the platform delivers again
\* (a background trigger is delivered at least once)
CoordCommitOnce(r) ==
    /\ r \in coordRunning
    /\ CoordCommitBatch(r)
    /\ redelivery' = [pending |-> TRUE, delivered |-> FALSE, msg |-> r.msg, circuit |-> r.circuit]

\* coordinateCeremonyParticipant invoked a second time with the same before/after
\* pair, on the Store as the first invocation left it
Redeliver ==
    /\ redelivery.pending
    /\ LET r == [msg |-> redelivery.msg, circuit |-> redelivery.circuit,
                 waitingQueue |-> circuits[redelivery.circuit].waitingQueue]
           b == CoordBatch(r)
       IN /\ circuits' = [circuits EXCEPT ![r.circuit].waitingQueue = b.waitingQueue]
          /\ participants' = WithWrite(b.write)
          /\ unsettled' = StillUnsettled(WithWrite(b.write), {})
          /\ coordTriggers' = coordTriggers \cup WriteEvents(b.write)
    /\ redelivery' = [pending |-> FALSE, delivered |-> TRUE]
    /\ finalizeReturn' = NoReturn
    /\ UNCHANGED formatted
    /\ verifyReturn' = NoReturn
    /\ UNCHANGED <<blobStore, staleCounters, ceremonyState, contributionDocs, now, timeouts, coordRunning,
                   verifyRunning, refreshTriggers, refreshRunning>>

\* ------------------------------------------------------ verifycontribution
\* !!contribution.hash && !!contribution.computationTime && !contribution.doc
isContributionWithoutDocRef(contribution) ==
    contribution.hash /\ contribution.computationTime # 0 /\ contribution.doc = NoDoc

\* a filter that would look at the first entry only: what C24 excludes
PartialContributions_FirstOnly(contributions) ==
    {i \in DOMAIN contributions : i = 1 /\ isContributionWithoutDocRef(contributions[i])}

PartialContributions(contributions) ==
    {i \in DOMAIN contributions : isContributionWithoutDocRef(contributions[i])}

\* the precondition of Step (1)
isFinalizing(state, caller) == state = CLOSED /\ caller = Coordinator
isContributing(status) == status = CONTRIBUTING

FreeSlots == {s \in Slots : verifyRunning[s] = Idle}
BusySlots == Slots \ FreeSlots

\* the calls that may still create a document
DocsLeft(maxDocs) == NumDocs + Cardinality(BusySlots) < maxDocs

\* lastZkeyIndex
\* an index allocated from both counters, so that invalid contributions would
\* consume indexes: what the amended C5 excludes
lastZkeyIndex_FromBothCounters(waitingQueue) ==
    formatZkeyIndex(waitingQueue.completedContributions
                        + waitingQueue.failedContributions + 1)

lastZkeyIndex(waitingQueue) == formatZkeyIndex(waitingQueue.completedContributions + 1)

\* Step (0) and the test of Step (1) for a caller the test lets in: the documents
\* are read and the worker phase begins.
VerifyStart(caller, circuitId, maxDocs) ==
    /\ FreeSlots # {}
    /\ DocsLeft(maxDocs)
    /\ isContributing(participants[caller].status) \/ isFinalizing(ceremonyState, caller)
    /\ LET s == CHOOSE x \in FreeSlots : \A y \in FreeSlots : x <= y
       IN verifyRunning' = [verifyRunning EXCEPT ![s] =
              [idle |-> FALSE,
               caller |-> caller,
               circuit |-> circuitId,
               isFinalizing |-> isFinalizing(ceremonyState, caller),
               status |-> participants[caller].status,
               waitingQueue |-> circuits[circuitId].waitingQueue,
               avgTimings |-> circuits[circuitId].avgTimings,
               contributions |-> participants[caller].contributions,
               verificationStartedAt |-> participants[caller].verificationStartedAt,
               contributionStartedAt |-> participants[caller].contributionStartedAt,
               timerStart |-> now]]
    /\ finalizeReturn' = NoReturn
    /\ UNCHANGED formatted
    /\ verifyReturn' = NoReturn
    /\ redelivery' = NoRedelivery
    /\ UNCHANGED <<blobStore, unsettled, staleCounters, ceremonyState, circuits, participants, contributionDocs, now, timeouts,
                   coordTriggers, coordRunning, refreshTriggers, refreshRunning>>

\* what the handler gives a caller the test of Step (1) keeps out: the body is
\* skipped, the empty batch is committed and the call returns
SkippedOutcome == "success"

\* the call of a caller who is neither contributing nor finalizing
VerifySkip(caller, circuitId) ==
    /\ ~(isContributing(participants[caller].status) \/ isFinalizing(ceremonyState, caller))
    /\ finalizeReturn' = NoReturn
    /\ UNCHANGED formatted
    /\ verifyReturn' = Return(SkippedOutcome, caller, circuitId, FALSE, FALSE, FALSE, "none")
    /\ redelivery' = NoRedelivery
    /\ UNCHANGED <<blobStore, unsettled, staleCounters, ceremonyState, circuits, participants, contributionDocs, now, timeouts,
                   coordTriggers, coordRunning, verifyRunning, refreshTriggers,
                   refreshRunning>>

\* the zkeyIndex field of the created document
\* the worker and command calls of Step (1.A) that may throw once the worker is started
WorkerCalls == {"checkEC2Status", "runCommandOnEC2", "retrieveCommandOutput", "stopEC2Instance"}

\* startEC2Instance throws: the invocation ends there, nothing is caught
VerifyStartFails(caller, circuitId) ==
    /\ isContributing(participants[caller].status) \/ isFinalizing(ceremonyState, caller)
    /\ finalizeReturn' = NoReturn
    /\ UNCHANGED formatted
    /\ verifyReturn' = Return("error", caller, circuitId, TRUE, FALSE, FALSE, "startEC2Instance")
    /\ redelivery' = NoRedelivery
    /\ UNCHANGED <<blobStore, unsettled, staleCounters, ceremonyState, circuits, participants,
                   contributionDocs, now, timeouts, coordTriggers, coordRunning, verifyRunning,
                   refreshTriggers, refreshRunning>>

\* a call between the start of the worker and the creation of the document
\* throws: the invocation ends there, nothing is caught and nothing committed;
\* the stop was attempted only if stopEC2Instance is the call that threw
VerifyWorkerFails(s, call) ==
    /\ verifyRunning[s] # Idle
    /\ verifyRunning' = [verifyRunning EXCEPT ![s] = Idle]
    /\ finalizeReturn' = NoReturn
    /\ UNCHANGED formatted
    /\ verifyReturn' = Return("error", verifyRunning[s].caller, verifyRunning[s].circuit,
                              TRUE, TRUE, call = "stopEC2Instance", call)
    /\ redelivery' = NoRedelivery
    /\ UNCHANGED <<blobStore, unsettled, staleCounters, ceremonyState, circuits, participants,
                   contributionDocs, now, timeouts, coordTriggers, coordRunning, refreshTriggers,
                   refreshRunning>>

\* request.data fields and process.env values the handler requires
DataFields == {"ceremonyId", "circuitId", "contributorOrCoordinatorIdentifier", "bucketName"}
EnvNames == {"CUSTOM_CONTRIBUTION_VERIFICATION_SOFTWARE_NAME",
             "CUSTOM_CONTRIBUTION_VERIFICATION_SOFTWARE_VERSION",
             "CUSTOM_CONTRIBUTION_VERIFICATION_SOFTWARE_COMMIT_HASH"}

\* a request of the participant u for circuit c that passes every check
GoodRequest(u, c) ==
    [authenticated |-> TRUE, uid |-> u, participant |-> TRUE, coordinator |-> u = Coordinator,
     missing |-> {}, circuitId |-> c]

\* the requests of verifycontribution: the good ones and the ones with request.auth
\* absent, with no participant claim (the coordinator claim is the Coordinator's),
\* or with one data field missing
Requests ==
    UNION {{GoodRequest(u, c),
            [GoodRequest(u, c) EXCEPT !.authenticated = FALSE],
            [GoodRequest(u, c) EXCEPT !.participant = FALSE]}
           \cup {[GoodRequest(u, c) EXCEPT !.missing = {f}] : f \in DataFields} :
               u \in Participants, c \in Circuits}

\* the environments: the values set (all of them or all but one)
Environments == {EnvNames} \cup {EnvNames \ {n} : n \in EnvNames}

\* the calls: a request in an environment, at most one of them defective
VerifyCalls ==
    {call \in Requests \X Environments :
        \/ call[2] = EnvNames
        \/ \E u \in Participants, c \in Circuits : call[1] = GoodRequest(u, c)}

\* checks that would let a call through with an environment value unset: what
\* C11 excludes
Preamble_NoEnvironmentCheck(request, env) ==
    IF ~request.authenticated \/ (~request.participant /\ ~request.coordinator)
    THEN "SE_AUTH_NO_CURRENT_AUTH_USER"
    ELSE IF request.missing # {} THEN "CM_MISSING_OR_WRONG_INPUT_DATA"
    ELSE "ok"

\* the three checks ahead of Step (0): the error thrown, or "ok"
Preamble(request, env) ==
    IF ~request.authenticated \/ (~request.participant /\ ~request.coordinator)
    THEN "SE_AUTH_NO_CURRENT_AUTH_USER"
    ELSE IF request.missing # {} THEN "CM_MISSING_OR_WRONG_INPUT_DATA"
    ELSE IF env # EnvNames THEN "CM_WRONG_CONFIGURATION"
    ELSE "ok"

\* logAndThrowError ahead of Step (0)
VerifyReject(request, env) ==
    /\ Preamble(request, env) # "ok"
    /\ finalizeReturn' = NoReturn
    /\ UNCHANGED formatted
    /\ verifyReturn' = Return("error", request.uid, request.circuitId, FALSE, FALSE, FALSE,
                              Preamble(request, env))
    /\ redelivery' = NoRedelivery
    /\ UNCHANGED <<blobStore, unsettled, staleCounters, ceremonyState, circuits, participants,
                   contributionDocs, now, timeouts, coordTriggers, coordRunning, verifyRunning,
                   refreshTriggers, refreshRunning>>

\* verifycontribution called with a request in an environment, up to the start
\* of the worker
VerifyCall(request, env, maxDocs) ==
    \/ VerifyReject(request, env)
    \/ /\ Preamble(request, env) = "ok"
       /\ \/ VerifyStart(request.uid, request.circuitId, maxDocs)
          \/ VerifyStartFails(request.uid, request.circuitId)
          \/ VerifySkip(request.uid, request.circuitId)

docZkeyIndex(v) ==
    IF v.isFinalizing THEN finalContributionIndex ELSE lastZkeyIndex(v.waitingQueue)

\* getZkeyStorageFilePath(prefix, ...): the object of the candidate zkey
lastZkeyStoragePath(v) == [circuit |-> v.circuit, zkeyIndex |-> docZkeyIndex(v)]

\* the fields of `files` the verifier writes for a valid contribution; an
\* invalid contribution document has no `files`
VerifiedFiles ==
    {"transcriptFilename", "lastZkeyFilename", "transcriptStoragePath", "lastZkeyStoragePath",
     "transcriptBlake2bHash"}
\* a contribution document without `beacon`
NoBeacon == [value |-> "", hash |-> ""]

\* batch.create(contributionDoc.ref, ...)
NewContributionDoc(v, valid) ==
    [id |-> NumDocs + 1,
     participantId |-> v.caller,
     zkeyIndex |-> docZkeyIndex(v),
     contributionComputationTime |-> IF valid THEN v.contributions[1].computationTime ELSE 0,
     files |-> IF valid THEN VerifiedFiles ELSE {},
     beacon |-> NoBeacon,
     valid |-> valid]

\* counters that would count an invalid contribution as completed and failed:
\* what C4 excludes
newCounters_CountsTwice(waitingQueue, valid) ==
    [waitingQueue EXCEPT
        !.completedContributions = IF valid THEN @ + 1 ELSE @ + 1,
        !.failedContributions = IF valid THEN @ ELSE @ + 1]

\* the waitingQueue of the circuit update of Step (1.A.4.C.1)
newCounters(waitingQueue, valid) ==
    [waitingQueue EXCEPT
        !.completedContributions = IF valid THEN @ + 1 ELSE @,
        !.failedContributions = IF valid THEN @ ELSE @ + 1]

\* timings that would average the verification time of an invalid contribution
\* too: what C19 excludes
newTimings_AlwaysAveraged(v, valid, t) ==
    [v.avgTimings EXCEPT
        !.verifyCloudFunction = newAvg(@, Timing(t - v.timerStart))]

\* the avgTimings of the circuit update of Step (1.A.4.C.1)
newTimings(v, valid, t) ==
    LET contributionComputationTime == Timing(v.contributions[1].computationTime)
        fullContributionTime == Timing(v.verificationStartedAt - v.contributionStartedAt)
        verifyCloudFunctionTime == Timing(t - v.timerStart)
    IN IF valid
       THEN [contributionComputation |->
                 newAvg(v.avgTimings.contributionComputation, contributionComputationTime),
             fullContribution |-> newAvg(v.avgTimings.fullContribution, fullContributionTime),
             verifyCloudFunction |->
                 newAvg(v.avgTimings.verifyCloudFunction, verifyCloudFunctionTime)]
       ELSE v.avgTimings

\* a circuit update that would count the final contribution too: what C20
\* excludes
CircuitAfterVerify_CountsFinal(doc, v, valid, t) ==
    [waitingQueue |-> newCounters(v.waitingQueue, valid),
     avgTimings |-> IF v.isFinalizing THEN doc.avgTimings ELSE newTimings(v, valid, t)]

\* the circuit document after the batch of invocation v
CircuitAfterVerify(doc, v, valid, t) ==
    IF v.isFinalizing THEN doc
    ELSE [waitingQueue |-> newCounters(v.waitingQueue, valid),
          avgTimings |-> newTimings(v, valid, t)]

\* Step (1.A.4.A): a valid contribution with no single partial entry makes the
\* handler throw before anything is committed
VerifyThrow(s) ==
    /\ verifyRunning[s] # Idle
    /\ Cardinality(PartialContributions(verifyRunning[s].contributions)) # 1
    /\ verifyRunning' = [verifyRunning EXCEPT ![s] = Idle]
    /\ finalizeReturn' = NoReturn
    /\ UNCHANGED formatted
    /\ verifyReturn' = Return("error", verifyRunning[s].caller, verifyRunning[s].circuit,
                              TRUE, TRUE, TRUE, "logAndThrowError")
    /\ redelivery' = NoRedelivery
    /\ UNCHANGED <<blobStore, unsettled, staleCounters, ceremonyState, circuits, participants, contributionDocs, now, timeouts,
                   coordTriggers, coordRunning, refreshTriggers, refreshRunning>>

\* the worker's output decided the validity; Steps (1.A.4) and (2)
VerifyCommit(s, valid) ==
    /\ verifyRunning[s] # Idle
    /\ valid => Cardinality(PartialContributions(verifyRunning[s].contributions)) = 1
    /\ LET v == verifyRunning[s]
           doc == NewContributionDoc(v, valid)
       IN /\ contributionDocs' = [contributionDocs EXCEPT ![v.circuit] = Append(@, doc)]
          /\ circuits' = [circuits EXCEPT ![v.circuit] = CircuitAfterVerify(@, v, valid, now)]
          /\ staleCounters' = IF v.isFinalizing THEN staleCounters
                               ELSE StaleAfter(v.circuit, v.waitingQueue)
          /\ refreshTriggers' = refreshTriggers \cup
                 {[id |-> doc.id, circuit |-> v.circuit, participantId |-> v.caller,
                   finalizingAtCreation |-> participants[v.caller].status = FINALIZING]}
          /\ unsettled' = StillUnsettled(participants,
                 IF participants[v.caller].status = FINALIZING THEN {} ELSE {v.caller})
          /\ finalizeReturn' = NoReturn
          /\ UNCHANGED formatted
          /\ verifyReturn' = Return("success", v.caller, v.circuit, TRUE, TRUE, TRUE, "none")
    /\ verifyRunning' = [verifyRunning EXCEPT ![s] = Idle]
    /\ redelivery' = NoRedelivery
    /\ blobStore' = IF valid THEN blobStore
                    ELSE blobStore \ {lastZkeyStoragePath(verifyRunning[s])}
    /\ UNCHANGED <<ceremonyState, participants, now, timeouts, coordTriggers, coordRunning,
                   refreshRunning>>

\* ---------------------- refreshParticipantAfterContributionVerification
RefreshRead(d) ==
    /\ d \in refreshTriggers
    /\ refreshTriggers' = refreshTriggers \ {d}
    /\ refreshRunning' = refreshRunning \cup
           {[doc |-> d,
             status |-> participants[d.participantId].status,
             contributionProgress |-> participants[d.participantId].contributionProgress,
             contributions |-> participants[d.participantId].contributions]}
    /\ finalizeReturn' = NoReturn
    /\ UNCHANGED formatted
    /\ verifyReturn' = NoReturn
    /\ redelivery' = NoRedelivery
    /\ UNCHANGED <<blobStore, unsettled, staleCounters, ceremonyState, circuits, participants, contributionDocs, now, timeouts,
                   coordTriggers, coordRunning, verifyRunning>>

\* contributions.forEach(...): link the created document
LinkDoc(contributions, docId) ==
    [i \in DOMAIN contributions |->
        IF isContributionWithoutDocRef(contributions[i])
        THEN [contributions[i] EXCEPT !.doc = docId]
        ELSE contributions[i]]

\* a status that would wait for one circuit more than the ceremony has: what
\* C22 excludes
RefreshedStatus_OneCircuitLate(contributionProgress) ==
    IF contributionProgress > NumCircuits THEN DONE ELSE CONTRIBUTED

\* the status written when the participant is not finalizing
RefreshedStatus(contributionProgress) ==
    IF contributionProgress + 1 > NumCircuits THEN DONE ELSE CONTRIBUTED

\* a refresher that would link the document and advance the status but leave
\* the contributionStep: what C8 excludes
Refreshed_KeepsStep(doc, r) ==
    IF r.status # FINALIZING
    THEN [doc EXCEPT !.status = RefreshedStatus(r.contributionProgress),
                     !.contributions = LinkDoc(r.contributions, r.doc.id)]
    ELSE [doc EXCEPT !.contributions = LinkDoc(r.contributions, r.doc.id)]

\* the participant document after the refresher's batch
Refreshed(doc, r) ==
    IF r.status # FINALIZING
    THEN [doc EXCEPT !.status = RefreshedStatus(r.contributionProgress),
                     !.contributionStep = COMPLETED,
                     !.contributions = LinkDoc(r.contributions, r.doc.id)]
    ELSE [doc EXCEPT !.contributions = LinkDoc(r.contributions, r.doc.id)]

RefreshCommit(r) ==
    /\ r \in refreshRunning
    /\ LET p == r.doc.participantId
       IN /\ participants' = [participants EXCEPT ![p] = Refreshed(@, r)]
          /\ unsettled' = StillUnsettled([participants EXCEPT ![p] = Refreshed(@, r)], {})
          /\ coordTriggers' = coordTriggers \cup
                 OnUpdate(p, participants[p], Refreshed(participants[p], r))
    /\ refreshRunning' = refreshRunning \ {r}
    /\ finalizeReturn' = NoReturn
    /\ UNCHANGED formatted
    /\ verifyReturn' = NoReturn
    /\ redelivery' = NoRedelivery
    /\ UNCHANGED <<blobStore, staleCounters, ceremonyState, circuits, contributionDocs, now, timeouts, coordRunning,
                   verifyRunning, refreshTriggers>>

\* ----------------------------------------------------------- finalizeCircuit
\* the beacons a coordinator may give
Beacons == {"beacon-xyz"}
\* computeSHA256ToHex(beacon)
computeSHA256ToHex(beacon) == <<"sha256", beacon>>

\* the fields finalizeCircuit adds to `files`
FinalizedFiles ==
    {"verificationKeyBlake2bHash", "verificationKeyFilename", "verificationKeyStoragePath",
     "verifierContractBlake2bHash", "verifierContractFilename", "verifierContractStoragePath"}

\* a finalizeCircuit that would update the newest document of the circuit: what
\* C26 excludes
getFinalContribution_Newest(circuitId) ==
    {i \in DOMAIN contributionDocs[circuitId] : i = Len(contributionDocs[circuitId])}

\* getFinalContribution(ceremonyId, circuitId): the documents of the circuit
\* whose zkeyIndex is the final-contribution token (the function is imported;
\* this is the specification's "the final contribution document for that circuit")
getFinalContribution(circuitId) ==
    {i \in DOMAIN contributionDocs[circuitId] :
        contributionDocs[circuitId][i].zkeyIndex = finalContributionIndex}

\* contributionDoc.ref.update({files: {...files, ...}, beacon: {...}})
Finalized(doc, beacon) ==
    [doc EXCEPT !.files = @ \cup FinalizedFiles,
                !.beacon = [value |-> beacon, hash |-> computeSHA256ToHex(beacon)]]

\* finalizeCircuit called by caller for circuitId with beacon: it throws for a
\* caller without the coordinator claim, when there is no final contribution
\* and when the download of an artifact fails (artifacts = FALSE)
finalizeCircuit(caller, circuitId, beacon, artifacts) ==
    /\ IF caller # Coordinator \/ getFinalContribution(circuitId) = {} \/ ~artifacts
       THEN /\ finalizeReturn' = [outcome |-> "error", caller |-> caller, circuit |-> circuitId]
            /\ UNCHANGED contributionDocs
       ELSE \E i \in getFinalContribution(circuitId) :
                /\ contributionDocs' = [contributionDocs EXCEPT
                       ![circuitId][i] = Finalized(@, beacon)]
                /\ finalizeReturn' = [outcome |-> "success", caller |-> caller,
                                      circuit |-> circuitId, beacon |-> beacon]
    /\ verifyReturn' = NoReturn
    /\ redelivery' = NoRedelivery
    /\ UNCHANGED <<formatted, blobStore, unsettled, staleCounters, ceremonyState, circuits, participants,
                   now, timeouts, coordTriggers, coordRunning, verifyRunning, refreshTriggers,
                   refreshRunning>>

\* ------------------------------------------- the contributors and the Clock
\* The callers of the handlers: the client library's participant updates, the
\* timeout of a contributor, the end of the contribution window.

\* a participant write made outside the three handlers
ClientUpdate(p, new) ==
    /\ participants' = [participants EXCEPT ![p] = new]
    /\ unsettled' = StillUnsettled([participants EXCEPT ![p] = new], {})
    /\ coordTriggers' = coordTriggers \cup OnUpdate(p, participants[p], new)
    /\ finalizeReturn' = NoReturn
    /\ UNCHANGED formatted
    /\ verifyReturn' = NoReturn
    /\ redelivery' = NoRedelivery
    /\ UNCHANGED <<staleCounters, ceremonyState, circuits, contributionDocs, now, coordRunning,
                   verifyRunning, refreshTriggers, refreshRunning>>

\* the participant asks for the first or for the next circuit
progressToNextCircuitForContribution(p) ==
    /\ UNCHANGED <<timeouts, blobStore>>
    /\ ceremonyState = OPENED
    /\ \/ participants[p].status = WAITING /\ participants[p].contributionProgress = 0
       \/ participants[p].status = CONTRIBUTED
    /\ participants[p].contributionProgress < NumCircuits
    /\ ClientUpdate(p, [participants[p] EXCEPT !.contributionProgress = @ + 1,
                                               !.status = READY])

NextStep(step) ==
    CASE step = DOWNLOADING -> COMPUTING
      [] step = COMPUTING -> UPLOADING
      [] step = UPLOADING -> VERIFYING
      [] OTHER -> step

\* the zkey the contributor of circuit contributionProgress uploads: the next
\* index of that circuit
uploadedZkey(p) ==
    LET c == participants[p].contributionProgress
    IN [circuit |-> c, zkeyIndex |-> lastZkeyIndex(circuits[c].waitingQueue)]

\* the current contributor moves to the next step of its contribution; leaving
\* UPLOADING, its zkey is in the Blob Store
progressToNextContributionStep(p) ==
    /\ UNCHANGED timeouts
    /\ participants[p].status = CONTRIBUTING
    /\ participants[p].contributionStep \in {DOWNLOADING, COMPUTING, UPLOADING}
    /\ blobStore' = IF participants[p].contributionStep = UPLOADING
                    THEN blobStore \cup {uploadedZkey(p)} ELSE blobStore
    /\ ClientUpdate(p, [participants[p] EXCEPT
           !.contributionStep = NextStep(@),
           !.verificationStartedAt = IF NextStep(participants[p].contributionStep) = VERIFYING
                                     THEN now ELSE @])

\* the contributor records the hash and the computation time of what it computed
permanentlyStoreCurrentContributionTimeAndHash(p, time, maxContributions) ==
    /\ UNCHANGED <<timeouts, blobStore>>
    /\ \/ /\ participants[p].status = CONTRIBUTING
          /\ participants[p].contributionStep = COMPUTING
       \/ participants[p].status = FINALIZING
    /\ Len(participants[p].contributions) < maxContributions
    /\ ClientUpdate(p, [participants[p] EXCEPT !.contributions =
           Append(@, [hash |-> TRUE, computationTime |-> time, doc |-> NoDoc])])

\* the contributor exceeded its time window
Timeout(p, maxTimeouts) ==
    /\ timeouts < maxTimeouts
    /\ timeouts' = timeouts + 1
    /\ UNCHANGED blobStore
    /\ participants[p].status = CONTRIBUTING
    /\ ClientUpdate(p, [participants[p] EXCEPT !.status = TIMEDOUT])

\* the timeout expired: ready again, progress unchanged
resumeContributionAfterTimeoutExpiration(p) ==
    /\ UNCHANGED <<timeouts, blobStore>>
    /\ participants[p].status = TIMEDOUT
    /\ ClientUpdate(p, [participants[p] EXCEPT !.status = READY])

\* the coordinator, done with every circuit, starts finalizing the closed ceremony
checkAndPrepareCoordinatorForFinalization ==
    /\ UNCHANGED <<timeouts, blobStore>>
    /\ ceremonyState = CLOSED
    /\ participants[Coordinator].status = DONE
    /\ ClientUpdate(Coordinator, [participants[Coordinator] EXCEPT !.status = FINALIZING])

\* the contribution window ends
CloseCeremony ==
    /\ ceremonyState = OPENED
    /\ ceremonyState' = CLOSED
    /\ finalizeReturn' = NoReturn
    /\ UNCHANGED formatted
    /\ verifyReturn' = NoReturn
    /\ redelivery' = NoRedelivery
    /\ UNCHANGED <<blobStore, unsettled, staleCounters, circuits, participants, contributionDocs, now, timeouts, coordTriggers,
                   coordRunning, verifyRunning, refreshTriggers, refreshRunning>>

Tick ==
    /\ now < MaxTime
    /\ now' = now + 1
    /\ UNCHANGED timeouts
    /\ finalizeReturn' = NoReturn
    /\ UNCHANGED formatted
    /\ verifyReturn' = NoReturn
    /\ redelivery' = IF redelivery.pending THEN redelivery ELSE NoRedelivery
    /\ UNCHANGED <<blobStore, unsettled, staleCounters, ceremonyState, circuits, participants, contributionDocs, coordTriggers,
                   coordRunning, verifyRunning, refreshTriggers, refreshRunning>>

\* ---------------------------------------------------------- specification
\* the contributors going through the circuits
Contribute(maxContributions) ==
    \/ \E p \in Participants : progressToNextCircuitForContribution(p)
    \/ \E p \in Participants : progressToNextContributionStep(p)
    \/ \E p \in Participants, time \in CompTimes :
           permanentlyStoreCurrentContributionTimeAndHash(p, time, maxContributions)

\* a contributor of circuit c, or the coordinator, calls verifycontribution for c
Calls(maxDocs) ==
    \E p \in Participants, c \in Circuits :
        /\ participants[p].contributionProgress = c \/ p = Coordinator
        /\ VerifyStart(p, c, maxDocs)

\* the calls the contributor's client makes: for its circuit once it is at step
\* VERIFYING, and for any circuit while it finalizes as coordinator
ClientCalls(maxDocs) ==
    \E p \in Participants, c \in Circuits :
        /\ \/ /\ participants[p].status = CONTRIBUTING
              /\ participants[p].contributionStep = VERIFYING
              /\ participants[p].contributionProgress = c
           \/ /\ participants[p].status = FINALIZING
              /\ p = Coordinator
        /\ VerifyStart(p, c, maxDocs)

\* the handlers, each invocation as a read step and a commit step; the commit
\* of coordinate() is CoordCommit or CoordCommitOnce
HandlerSteps ==
    \/ \E m \in coordTriggers : CoordRead(m)
    \/ \E s \in Slots : VerifyThrow(s)
    \/ \E s \in Slots, valid \in BOOLEAN : VerifyCommit(s, valid)
    \/ \E d \in refreshTriggers : RefreshRead(d)
    \/ \E r \in refreshRunning : RefreshCommit(r)

Handlers ==
    \/ HandlerSteps
    \/ \E r \in coordRunning : CoordCommit(r)

\* Spec: one circuit, two users, concurrent verifier calls
Init == InitWith(Users, 1, MaxVerifiers)

Next ==
    \/ Contribute(MaxContributions)
    \/ Calls(MaxDocs)
    \/ Handlers

Spec == Init /\ [][Next]_vars

\* SpecTimeout: a contributor may time out and resume
InitTimeout == InitWith(Users, 1, 1)

NextTimeout ==
    \/ Contribute(TimeoutContributions)
    \/ \E p \in Participants : Timeout(p, MaxTimeouts)
    \/ \E p \in Participants : resumeContributionAfterTimeoutExpiration(p)
    \/ Calls(TimeoutDocs)
    \/ Handlers

SpecTimeout == InitTimeout /\ [][NextTimeout]_vars

\* SpecClosing: the contribution window ends and the coordinator finalizes
InitClosing == InitWith(Users, 1, 1)

NextClosing ==
    \/ Contribute(ClosingContributions)
    \/ CloseCeremony
    \/ checkAndPrepareCoordinatorForFinalization
    \/ Calls(ClosingDocs)
    \/ Handlers

SpecClosing == InitClosing /\ [][NextClosing]_vars

\* SpecCalls: two circuits, any user calls verifycontribution for any circuit
InitCalls == InitWith(Users, 2, 1)

NextCalls ==
    \/ Contribute(CallsContributions)
    \/ \E p \in Participants, c \in Circuits : VerifyStart(p, c, CallsDocs)
    \/ \E p \in Participants, c \in Circuits : VerifySkip(p, c)
    \/ Handlers

SpecCalls == InitCalls /\ [][NextCalls]_vars

\* SpecRedelivery: the platform delivers a participant update twice
InitRedelivery == InitWith(Users, 2, 1)

NextRedelivery ==
    \/ Contribute(RedeliveryContributions)
    \/ Calls(RedeliveryDocs)
    \/ HandlerSteps
    \/ \E r \in coordRunning : CoordCommitOnce(r)
    \/ Redeliver
    \/ Tick

SpecRedelivery == InitRedelivery /\ [][NextRedelivery]_vars

\* SpecLive: the coordinator alone contributes to one circuit and finalizes;
\* the platform eventually runs every refresher invocation it triggered
LiveUsers == {Coordinator}

InitLive == InitWith(LiveUsers, 1, 1)

NextLive ==
    \/ Contribute(LiveContributions)
    \/ CloseCeremony
    \/ checkAndPrepareCoordinatorForFinalization
    \/ Calls(LiveDocs)
    \/ Handlers

RefresherFairness ==
    /\ WF_vars(\E d \in refreshTriggers : RefreshRead(d))
    /\ WF_vars(\E r \in refreshRunning : RefreshCommit(r))

SpecLive == InitLive /\ [][NextLive]_vars /\ RefresherFairness

\* SpecFailures: verifycontribution called with any request in any environment,
\* the worker and command calls failing at any point
InitFailures == InitWith(Users, 1, 1)

NextFailures ==
    \/ Contribute(FailuresContributions)
    \/ \E call \in VerifyCalls : VerifyCall(call[1], call[2], FailuresDocs)
    \/ \E s \in Slots, call \in WorkerCalls : VerifyWorkerFails(s, call)
    \/ Handlers

SpecFailures == InitFailures /\ [][NextFailures]_vars

\* SpecClock: the Clock advances while contributors queue, time out and resume
InitClock == InitWith(Users, 1, 1)

NextClock ==
    \/ Contribute(ClockContributions)
    \/ \E p \in Participants : Timeout(p, ClockTimeouts)
    \/ \E p \in Participants : resumeContributionAfterTimeoutExpiration(p)
    \/ Calls(ClockDocs)
    \/ Handlers
    \/ Tick

SpecClock == InitClock /\ [][NextClock]_vars

\* SpecSolo: the coordinator alone in a ceremony of two circuits, met when the
\* verifier has just committed its contribution to the first circuit; it goes
\* on to the second circuit and finalizes
InitSolo ==
    \E valid \in BOOLEAN :
        LET u == Coordinator
            time == FirstComputationTime
            entry == [hash |-> TRUE, computationTime |-> time, doc |-> NoDoc]
        IN /\ ceremonyState = OPENED
           /\ circuits = [c \in 1 .. 2 |->
                  IF c = 1
                  THEN [waitingQueue |-> [contributors |-> <<u>>, currentContributor |-> u,
                                          completedContributions |-> IF valid THEN 1 ELSE 0,
                                          failedContributions |-> IF valid THEN 0 ELSE 1],
                        avgTimings |-> IF valid
                                       THEN [zeroTimings EXCEPT
                                                !.contributionComputation = Timing(time)]
                                       ELSE zeroTimings]
                  ELSE [waitingQueue |-> emptyQueue, avgTimings |-> zeroTimings]]
           /\ participants = [p \in LiveUsers |->
                  [status |-> CONTRIBUTING, contributionStep |-> VERIFYING,
                   contributionProgress |-> 1, contributionStartedAt |-> 1,
                   verificationStartedAt |-> 1, contributions |-> <<entry>>]]
           /\ contributionDocs = [c \in 1 .. 2 |->
                  IF c = 1
                  THEN <<[id |-> 1, participantId |-> u, zkeyIndex |-> formatZkeyIndex(1),
                          contributionComputationTime |-> IF valid THEN time ELSE 0,
                          files |-> IF valid THEN VerifiedFiles ELSE {},
                          beacon |-> NoBeacon, valid |-> valid]>>
                  ELSE <<>>]
           /\ blobStore = IF valid THEN {[circuit |-> 1, zkeyIndex |-> formatZkeyIndex(1)]}
                          ELSE {}
           /\ refreshTriggers = {[id |-> 1, circuit |-> 1, participantId |-> u,
                                  finalizingAtCreation |-> FALSE]}
           /\ unsettled = {u}
           /\ now = 1
           /\ timeouts = 0
           /\ coordTriggers = {}
           /\ coordRunning = {}
           /\ verifyRunning = [s \in {1} |-> Idle]
           /\ verifyReturn = NoReturn
           /\ finalizeReturn = NoReturn
           /\ formatted = [progress |-> 0, index |-> NotFormatted]
           /\ refreshRunning = {}
           /\ redelivery = NoRedelivery
           /\ staleCounters = {}

NextSolo ==
    \/ Contribute(SoloContributions)
    \/ CloseCeremony
    \/ checkAndPrepareCoordinatorForFinalization
    \/ ClientCalls(SoloDocs)
    \/ Handlers

SpecSolo == InitSolo /\ [][NextSolo]_vars

\* SpecSingle: one participant U alone in an opened ceremony of one circuit. Its
\* client makes each step of the contribution once, records one computation
\* while COMPUTING, and calls verifycontribution once it is at step VERIFYING,
\* awaiting the answer; the worker's output has the success marker; U is not
\* timed out. Every step of the client and of the handlers that stays possible
\* is eventually taken.
InitSingle ==
    \E u \in Users :
        /\ participants = [p \in {u} |-> newParticipant]
        /\ ceremonyState = OPENED
        /\ circuits = [c \in 1 .. 1 |-> [waitingQueue |-> emptyQueue, avgTimings |-> zeroTimings]]
        /\ contributionDocs = [c \in 1 .. 1 |-> <<>>]
        /\ now = 1
        /\ timeouts = 0
        /\ coordTriggers = {}
        /\ coordRunning = {}
        /\ verifyRunning = [s \in 1 .. 1 |-> Idle]
        /\ verifyReturn = NoReturn
        /\ finalizeReturn = NoReturn
        /\ formatted = [progress |-> 0, index |-> NotFormatted]
        /\ refreshTriggers = {}
        /\ refreshRunning = {}
        /\ redelivery = NoRedelivery
        /\ staleCounters = {}
        /\ unsettled = {}
        /\ blobStore = {}

\* the client leaves COMPUTING once it has recorded its computation
SingleStep ==
    \E p \in Participants :
        /\ participants[p].contributionStep = COMPUTING =>
               PartialContributions(participants[p].contributions) # {}
        /\ progressToNextContributionStep(p)

\* the client records its computation once; the computation took some time
SingleStore ==
    \E p \in Participants, time \in ComputationTimes \ {0} :
        /\ participants[p].contributions = <<>>
        /\ permanentlyStoreCurrentContributionTimeAndHash(p, time, 1)

\* the client calls verifycontribution at step VERIFYING, unless the call was
\* answered before
SingleCall ==
    /\ NumDocs = 0
    /\ ClientCalls(1)

NextSingle ==
    \/ \E p \in Participants : progressToNextCircuitForContribution(p)
    \/ SingleStep
    \/ SingleStore
    \/ SingleCall
    \/ \E m \in coordTriggers : CoordRead(m)
    \/ \E r \in coordRunning : CoordCommit(r)
    \/ \E s \in Slots : VerifyCommit(s, TRUE)
    \/ \E d \in refreshTriggers : RefreshRead(d)
    \/ \E r \in refreshRunning : RefreshCommit(r)
    \/ Tick

SingleFairness ==
    /\ WF_vars(\E p \in Participants : progressToNextCircuitForContribution(p))
    /\ WF_vars(SingleStep)
    /\ WF_vars(SingleStore)
    /\ WF_vars(SingleCall)
    /\ WF_vars(\E m \in coordTriggers : CoordRead(m))
    /\ WF_vars(\E r \in coordRunning : CoordCommit(r))
    /\ WF_vars(\E s \in Slots : VerifyCommit(s, TRUE))
    /\ WF_vars(\E d \in refreshTriggers : RefreshRead(d))
    /\ WF_vars(\E r \in refreshRunning : RefreshCommit(r))

SpecSingle == InitSingle /\ [][NextSingle]_vars /\ SingleFairness

\* SpecQueue: two participants queue for one circuit. Each client makes the
\* steps of its contribution, records one computation and calls
\* verifycontribution once it is at step VERIFYING, unless a document of its
\* own exists; a contributor may be timed out once and resumes. Every step of
\* a client and of a handler that stays possible is eventually taken, so every
\* contributor that stays CONTRIBUTING gets a contribution document.
QueueCall ==
    \E p \in Participants, c \in Circuits :
        /\ \A i \in DOMAIN contributionDocs[c] : contributionDocs[c][i].participantId # p
        /\ participants[p].status = CONTRIBUTING
        /\ participants[p].contributionStep = VERIFYING
        /\ participants[p].contributionProgress = c
        /\ VerifyStart(p, c, QueueDocs)

NextQueue ==
    \/ \E p \in Participants : progressToNextCircuitForContribution(p)
    \/ SingleStep
    \/ SingleStore
    \/ QueueCall
    \/ \E p \in Participants : Timeout(p, QueueTimeouts)
    \/ \E p \in Participants : resumeContributionAfterTimeoutExpiration(p)
    \/ \E m \in coordTriggers : CoordRead(m)
    \/ \E r \in coordRunning : CoordCommit(r)
    \/ \E s \in Slots, valid \in BOOLEAN : VerifyCommit(s, valid)
    \/ \E d \in refreshTriggers : RefreshRead(d)
    \/ \E r \in refreshRunning : RefreshCommit(r)

QueueFairness ==
    /\ WF_vars(\E p \in Participants : progressToNextCircuitForContribution(p))
    /\ WF_vars(SingleStep)
    /\ WF_vars(SingleStore)
    /\ WF_vars(QueueCall)
    /\ WF_vars(\E p \in Participants : resumeContributionAfterTimeoutExpiration(p))
    /\ WF_vars(\E m \in coordTriggers : CoordRead(m))
    /\ WF_vars(\E r \in coordRunning : CoordCommit(r))
    /\ WF_vars(\E s \in Slots, valid \in BOOLEAN : VerifyCommit(s, valid))
    /\ WF_vars(\E d \in refreshTriggers : RefreshRead(d))
    /\ WF_vars(\E r \in refreshRunning : RefreshCommit(r))

SpecQueue == InitWith(Users, 1, 1) /\ [][NextQueue]_vars /\ QueueFairness

\* SpecFormat: formatZkeyIndex applied to one argument: the small numbers and
\* the numbers around each change of the number of digits, up to six digits
FormatInputs ==
    (0 .. FormatSmall) \cup {99, 100, 101, 999, 1000, 1001, 9999, 10000, 10001, 99998, 99999, 100000}

InitFormat ==
    \E progress \in FormatInputs :
        /\ formatted = [progress |-> progress, index |-> NotFormatted]
        /\ ceremonyState = OPENED
        /\ circuits = [c \in 1 .. 1 |-> [waitingQueue |-> emptyQueue, avgTimings |-> zeroTimings]]
        /\ participants = [p \in Users |-> newParticipant]
        /\ contributionDocs = [c \in 1 .. 1 |-> <<>>]
        /\ now = 1
        /\ timeouts = 0
        /\ coordTriggers = {}
        /\ coordRunning = {}
        /\ verifyRunning = [s \in 1 .. 1 |-> Idle]
        /\ verifyReturn = NoReturn
        /\ finalizeReturn = NoReturn
        /\ refreshTriggers = {}
        /\ refreshRunning = {}
        /\ redelivery = NoRedelivery
        /\ staleCounters = {}
        /\ unsettled = {}
        /\ blobStore = {}

\* the call formatZkeyIndex(progress)
FormatIndex ==
    /\ formatted.index = NotFormatted
    /\ formatted' = [formatted EXCEPT !.index = formatZkeyIndex(formatted.progress)]
    /\ UNCHANGED <<ceremonyState, circuits, participants, contributionDocs, now, timeouts,
                   coordTriggers, coordRunning, verifyRunning, verifyReturn, refreshTriggers,
                   refreshRunning, redelivery, staleCounters, unsettled, blobStore, finalizeReturn>>

NextFormat == FormatIndex

SpecFormat == InitFormat /\ [][NextFormat]_vars

\* SpecFinalize: a ceremony of two circuits met when the window has ended, the
\* coordinator having contributed to both circuits; it finalizes them. No step
\* of it changes a participant in a way coordinate() is triggered for
InitFinalize ==
    /\ ceremonyState = CLOSED
    /\ circuits = [c \in 1 .. 2 |->
           [waitingQueue |-> [emptyQueue EXCEPT !.completedContributions = 1],
            avgTimings |-> [zeroTimings EXCEPT
                               !.contributionComputation = Timing(FirstComputationTime)]]]
    /\ participants = [p \in Users |->
           IF p = Coordinator
           THEN [status |-> DONE, contributionStep |-> COMPLETED, contributionProgress |-> 2,
                 contributionStartedAt |-> 1, verificationStartedAt |-> 1,
                 contributions |->
                     [c \in 1 .. 2 |-> [hash |-> TRUE, computationTime |-> FirstComputationTime,
                                        doc |-> c]]]
           ELSE newParticipant]
    /\ contributionDocs = [c \in 1 .. 2 |->
           <<[id |-> c, participantId |-> Coordinator, zkeyIndex |-> formatZkeyIndex(1),
              contributionComputationTime |-> FirstComputationTime, files |-> VerifiedFiles,
              beacon |-> NoBeacon, valid |-> TRUE]>>]
    /\ blobStore = {[circuit |-> c, zkeyIndex |-> formatZkeyIndex(1)] : c \in 1 .. 2}
    /\ now = 1
    /\ timeouts = 0
    /\ coordTriggers = {}
    /\ coordRunning = {}
    /\ verifyRunning = [s \in {1} |-> Idle]
    /\ verifyReturn = NoReturn
    /\ finalizeReturn = NoReturn
    /\ formatted = [progress |-> 0, index |-> NotFormatted]
    /\ refreshTriggers = {}
    /\ refreshRunning = {}
    /\ redelivery = NoRedelivery
    /\ staleCounters = {}
    /\ unsettled = {}

NextFinalize ==
    \/ checkAndPrepareCoordinatorForFinalization
    \/ \E p \in Participants, time \in CompTimes :
           permanentlyStoreCurrentContributionTimeAndHash(p, time, FinalizeContributions)
    \/ ClientCalls(FinalizeDocs)
    \/ \E s \in Slots : VerifyThrow(s)
    \/ \E s \in Slots, valid \in BOOLEAN : VerifyCommit(s, valid)
    \/ \E d \in refreshTriggers : RefreshRead(d)
    \/ \E r \in refreshRunning : RefreshCommit(r)
    \/ \E p \in Participants, c \in Circuits, beacon \in Beacons, artifacts \in BOOLEAN :
           finalizeCircuit(p, c, beacon, artifacts)

SpecFinalize == InitFinalize /\ [][NextFinalize]_vars

\* SpecTimings: a ceremony of one circuit met after k valid contributions, its
\* next contributor at step VERIFYING; the times are those of the contributors
TimingsUsers == <<"p1", "p2", "p3">>

\* the averages a circuit may hold after k valid contributions with samples of S
RECURSIVE Averages(_, _)
Averages(k, S) ==
    IF k = 0 THEN {Timing(0)}
    ELSE {newAvg(a, Timing(x)) : a \in Averages(k - 1, S), x \in S}

InitTimings ==
    \E k \in 0 .. TimingsCompleted, full \in FullTimes :
    \E avgFull \in Averages(k, FullTimes), avgComputation \in Averages(k, ComputationTimes),
       avgVerify \in Averages(k, {0, 1}),
       partial \in {<<>>} \cup {<<[hash |-> TRUE, computationTime |-> t, doc |-> NoDoc]>> :
                                   t \in ComputationTimes} :
        LET u == TimingsUsers[k + 1]
        IN /\ ceremonyState = OPENED
           /\ circuits = [c \in {1} |->
                  [waitingQueue |-> [contributors |-> <<u>>, currentContributor |-> u,
                                     completedContributions |-> k, failedContributions |-> 0],
                   avgTimings |-> [contributionComputation |-> avgComputation,
                                   fullContribution |-> avgFull,
                                   verifyCloudFunction |-> avgVerify]]]
           /\ participants = [p \in {TimingsUsers[j] : j \in DOMAIN TimingsUsers} |->
                  LET i == CHOOSE j \in DOMAIN TimingsUsers : TimingsUsers[j] = p IN
                  IF i <= k
                  THEN [status |-> DONE, contributionStep |-> COMPLETED,
                        contributionProgress |-> 1, contributionStartedAt |-> 1,
                        verificationStartedAt |-> 1,
                        contributions |-> <<[hash |-> TRUE, computationTime |-> 4, doc |-> i]>>]
                  ELSE IF i = k + 1
                  THEN [status |-> CONTRIBUTING, contributionStep |-> VERIFYING,
                        contributionProgress |-> 1, contributionStartedAt |-> 1,
                        verificationStartedAt |-> 1 + full, contributions |-> partial]
                  ELSE newParticipant]
           /\ contributionDocs = [c \in {1} |->
                  [i \in 1 .. k |->
                      [id |-> i, participantId |-> TimingsUsers[i], zkeyIndex |-> formatZkeyIndex(i),
                       contributionComputationTime |-> 4, files |-> VerifiedFiles,
                       beacon |-> NoBeacon, valid |-> TRUE]]]
           /\ blobStore = {[circuit |-> 1, zkeyIndex |-> formatZkeyIndex(i)] : i \in 1 .. k + 1}
           /\ now = 1
           /\ timeouts = 0
           /\ coordTriggers = {}
           /\ coordRunning = {}
           /\ verifyRunning = [s \in {1} |-> Idle]
           /\ verifyReturn = NoReturn
           /\ finalizeReturn = NoReturn
           /\ formatted = [progress |-> 0, index |-> NotFormatted]
           /\ refreshTriggers = {}
           /\ refreshRunning = {}
           /\ redelivery = NoRedelivery
           /\ staleCounters = {}
           /\ unsettled = {}

NextTimings ==
    \/ Calls(TimingsDocs)
    \/ Handlers
    \/ Tick

SpecTimings == InitTimings /\ [][NextTimings]_vars

\* ------------------------------------------------------------------ claims
Range(seq) == {seq[i] : i \in DOMAIN seq}

\* the participants contributing to circuit c
ContributingOn(c) ==
    {p \in Participants : /\ participants[p].status = CONTRIBUTING
                          /\ participants[p].contributionProgress = c}

\* the documents of circuit c that are not the final contribution
NonFinal(c) ==
    {i \in DOMAIN contributionDocs[c] :
        contributionDocs[c][i].zkeyIndex # finalContributionIndex}

ValidNonFinal(c) == {i \in NonFinal(c) : contributionDocs[c][i].valid}

\* C1: for every circuit, at most one participant has status CONTRIBUTING with
\* contributionProgress designating that circuit.
C1_AtMostOneContributing ==
    \A c \in Circuits : Cardinality(ContributingOn(c)) <= 1

\* C2: whenever waitingQueue.currentContributor is non-empty it equals
\* waitingQueue.contributors[0].
C2_HeadIsCurrentContributor ==
    \A c \in Circuits :
        LET q == circuits[c].waitingQueue
        IN q.currentContributor # NoOne =>
               /\ Len(q.contributors) > 0
               /\ q.contributors[1] = q.currentContributor

\* C2's case: a contributor timed out, the scenarios of coordinate() and a
\* valid verifier commit acted, the contributor of the valid document was
\* refreshed and the baton passed to the current contributor behind them
C2_Witness ==
    \E c \in Circuits :
        LET q == circuits[c].waitingQueue
        IN /\ q.currentContributor # NoOne
           /\ participants[q.currentContributor].status = CONTRIBUTING
           /\ timeouts > 0
           /\ q.completedContributions > 0
           /\ \E i \in DOMAIN contributionDocs[c] :
                  LET d == contributionDocs[c][i]
                  IN /\ d.valid
                     /\ d.participantId # q.currentContributor
                     /\ participants[d.participantId].status \in {CONTRIBUTED, DONE}

\* C3: concurrent coordinator invocations on a circuit leave the queue a serial
\* order of them would; stated for the arrivals (no contribution document and no
\* timeout yet, so only single-participant coordinations ran): no coordinated
\* participant is missing from contributors, and of two coordinated
\* participants exactly one is currentContributor and CONTRIBUTING, the other
\* WAITING.
Coordinated(p, c) ==
    /\ participants[p].contributionProgress = c
    /\ participants[p].status \in {CONTRIBUTING, WAITING}

C3_ArrivalsSerialized ==
    (NumDocs = 0 /\ timeouts = 0) =>
        \A c \in Circuits :
            LET q == circuits[c].waitingQueue
            IN /\ \A p \in Participants : Coordinated(p, c) => p \in Range(q.contributors)
               /\ \A p, o \in Participants :
                      (p # o /\ Coordinated(p, c) /\ Coordinated(o, c)) =>
                          /\ q.currentContributor \in {p, o}
                          /\ participants[q.currentContributor].status = CONTRIBUTING
                          /\ \E w \in {p, o} : participants[w].status = WAITING

C6_ValidIndexIsRank ==
    \A c \in Circuits : \A i \in ValidNonFinal(c) :
        contributionDocs[c][i].zkeyIndex =
            formatZkeyIndex(Cardinality({j \in ValidNonFinal(c) : j <= i}))

\* C7: invoking coordinateCeremonyParticipant a second time with the same
\* before/after pair, after the first invocation committed, leaves every
\* circuit's waitingQueue and every participant's status, contributionStep and
\* contributionStartedAt as the first invocation left them.
C7_RedeliveryChangesNothing ==
    [][redelivery'.delivered =>
           /\ \A c \in Circuits :
                  circuits'[c].waitingQueue = circuits[c].waitingQueue
           /\ \A p \in Participants :
                  /\ participants'[p].status = participants[p].status
                  /\ participants'[p].contributionStep = participants[p].contributionStep
                  /\ participants'[p].contributionStartedAt
                         = participants[p].contributionStartedAt]_vars

\* C9: verifycontribution starts the worker for circuit C only if the caller is
\* C's waitingQueue.currentContributor with status CONTRIBUTING, or the caller
\* is the coordinator while the ceremony is CLOSED.
C9_OnlyCurrentContributorVerifies ==
    \A s \in BusySlots :
        LET v == verifyRunning[s]
        IN \/ v.isFinalizing
           \/ /\ v.status = CONTRIBUTING
              /\ v.waitingQueue.currentContributor = v.caller

\* C10: a call of verifycontribution by a participant who is not CONTRIBUTING
\* and not the coordinator of a CLOSED ceremony returns an error to the caller.
C10_IneligibleCallerGetsError ==
    (verifyReturn.outcome # "none" /\ ~verifyReturn.eligible) =>
        verifyReturn.outcome = "error"

Settled(p) == SettledIn(participants, p)

\* C8: whenever a contribution document is created while its participant is not
\* FINALIZING, eventually (the refresher being scheduled fairly) that
\* participant has status CONTRIBUTED or DONE with contributionStep COMPLETED.
C8_CreatedDocumentSettlesParticipant ==
    \A p \in LiveUsers : (p \in unsettled) ~> Settled(p)

\* C8's case: the refresher settled a participant whose documents, created
\* while the participant was CONTRIBUTING, it linked, the final one among them
C8_Witness ==
    \E p \in Participants :
        /\ Settled(p)
        /\ p \notin unsettled
        /\ \E i \in DOMAIN participants[p].contributions :
               participants[p].contributions[i].doc # NoDoc
        /\ \E c \in Circuits : NonFinal(c) # DOMAIN contributionDocs[c]

\* what C11 calls a bad call: no auth principal with the participant or the
\* coordinator role, a data field missing, or an environment value unset
BadCall(request, env) ==
    \/ ~request.authenticated
    \/ ~(request.participant \/ request.coordinator)
    \/ \E f \in DataFields : f \in request.missing
    \/ \E n \in EnvNames : n \notin env

\* C11: a call of verifycontribution without an auth principal carrying a role,
\* or with a data field missing, or with an environment value unset, fails with
\* an error, starts no worker and changes neither the Store nor the Blob Store.
C11_BadCallFailsBeforeAnything ==
    [][\A call \in VerifyCalls :
           (BadCall(call[1], call[2]) /\ VerifyCall(call[1], call[2], FailuresDocs)) =>
               /\ verifyReturn'.outcome = "error"
               /\ ~verifyReturn'.workerStarted
               /\ UNCHANGED <<verifyRunning, ceremonyState, circuits, participants,
                              contributionDocs, blobStore>>]_vars

\* C11's case: a call of an eligible contributor was refused for its environment
C11_Witness ==
    /\ verifyReturn.outcome = "error"
    /\ verifyReturn.thrownBy = "CM_WRONG_CONFIGURATION"
    /\ participants[verifyReturn.caller].status = CONTRIBUTING
    /\ participants[verifyReturn.caller].contributionStep = VERIFYING

\* C12: an invocation of verifycontribution that started the worker attempts
\* to stop it before it ends, on every exit path.
C12_StartedWorkerIsStopped ==
    (verifyReturn.outcome # "none" /\ verifyReturn.workerStarted) =>
        verifyReturn.workerStopped

\* C13: when the worker start, the readiness probe or the command execution
\* fails for a contributing participant, the invocation still commits a
\* contribution document with valid = false and adds 1 to failedContributions.
C13_WorkerFailureRecordsInvalid ==
    [][(/\ verifyReturn'.outcome # "none"
        /\ verifyReturn'.thrownBy \in {"startEC2Instance", "checkEC2Status", "runCommandOnEC2"}
        /\ participants[verifyReturn'.caller].status = CONTRIBUTING) =>
           LET c == verifyReturn'.circuit
               n == Len(contributionDocs'[c])
           IN /\ n = Len(contributionDocs[c]) + 1
              /\ ~contributionDocs'[c][n].valid
              /\ circuits'[c].waitingQueue.failedContributions
                     = circuits[c].waitingQueue.failedContributions + 1]_vars

\* the invocations of verifycontribution between the start and the stop of the
\* worker of circuit c
UsingWorker(c) == {s \in BusySlots : verifyRunning[s].circuit = c}

\* C14: for every circuit, at most one verifycontribution invocation at a time
\* is between starting and stopping the circuit's worker.
C14_OneInvocationPerWorker ==
    \A c \in Circuits : Cardinality(UsingWorker(c)) <= 1

\* the step is the commit of coordinate() invocation r
Commits(r) == r \in coordRunning /\ r \notin coordRunning'

isSingleParticipantCoordination(r) == Classify(r.msg.before, r.msg.after) = "single"

\* C15: single-participant coordination of a participant who is READY with
\* unchanged contributionProgress and is the currentContributor of the circuit
\* the invocation read (Scenario A') sets status CONTRIBUTING and step
\* DOWNLOADING and leaves contributionStartedAt at its previous value.
C15_ResumeKeepsStartedAt ==
    [][\A r \in coordRunning :
           (/\ Commits(r)
            /\ isSingleParticipantCoordination(r)
            /\ r.msg.after.status = READY
            /\ r.msg.before.contributionProgress = r.msg.after.contributionProgress
            /\ r.waitingQueue.currentContributor = r.msg.id) =>
               /\ participants'[r.msg.id].status = CONTRIBUTING
               /\ participants'[r.msg.id].contributionStep = DOWNLOADING
               /\ participants'[r.msg.id].contributionStartedAt
                      = participants[r.msg.id].contributionStartedAt]_vars

\* C16: single-participant coordination of p whose invocation read an empty
\* queue (no currentContributor, no contributors) commits in one step
\* currentContributor = p, contributors = <<p>> and p's status CONTRIBUTING,
\* step DOWNLOADING, contributionStartedAt = now.
C16_ScenarioA ==
    [][\A r \in coordRunning :
           (/\ Commits(r)
            /\ isSingleParticipantCoordination(r)
            /\ r.waitingQueue.currentContributor = NoOne
            /\ r.waitingQueue.contributors = <<>>) =>
               /\ circuits'[r.circuit].waitingQueue.currentContributor = r.msg.id
               /\ circuits'[r.circuit].waitingQueue.contributors = <<r.msg.id>>
               /\ participants'[r.msg.id].status = CONTRIBUTING
               /\ participants'[r.msg.id].contributionStep = DOWNLOADING
               /\ participants'[r.msg.id].contributionStartedAt = now]_vars

C16_Witness ==
    \E c \in Circuits, p \in Participants :
        /\ now > 1
        /\ circuits[c].waitingQueue.currentContributor = p
        /\ circuits[c].waitingQueue.contributors = <<p>>
        /\ participants[p].status = CONTRIBUTING
        /\ participants[p].contributionStep = DOWNLOADING
        /\ participants[p].contributionStartedAt = now
        /\ timeouts = 0
        /\ NumDocs = 0

\* C17: single-participant coordination of p whose invocation read another
\* participant q as currentContributor appends p to the contributors it read,
\* keeps currentContributor = q and sets p's status WAITING and
\* contributionStartedAt 0 without changing p's contributionStep.
C17_ScenarioB ==
    [][\A r \in coordRunning :
           (/\ Commits(r)
            /\ isSingleParticipantCoordination(r)
            /\ r.waitingQueue.currentContributor \notin {NoOne, r.msg.id}) =>
               /\ circuits'[r.circuit].waitingQueue.contributors
                      = Append(r.waitingQueue.contributors, r.msg.id)
               /\ circuits'[r.circuit].waitingQueue.currentContributor
                      = r.waitingQueue.currentContributor
               /\ participants'[r.msg.id].status = WAITING
               /\ participants'[r.msg.id].contributionStartedAt = 0
               /\ participants'[r.msg.id].contributionStep
                      = participants[r.msg.id].contributionStep]_vars

C17_Witness ==
    \E c \in Circuits, p, q \in Participants :
        /\ p # q
        /\ now > 1
        /\ circuits[c].waitingQueue.currentContributor = q
        /\ circuits[c].waitingQueue.contributors = <<q, p>>
        /\ participants[q].status = CONTRIBUTING
        /\ participants[p].status = WAITING
        /\ participants[p].contributionProgress = c
        /\ participants[p].contributionStartedAt = 0

C19_InvalidCommit ==
    [][\A s \in BusySlots :
           LET v == verifyRunning[s]
               c == v.circuit
               n == Len(contributionDocs'[c])
           IN (/\ verifyRunning'[s] = Idle
               /\ verifyReturn'.outcome = "success"
               /\ ~v.isFinalizing
               /\ ~contributionDocs'[c][n].valid) =>
                  /\ n = Len(contributionDocs[c]) + 1
                  /\ contributionDocs'[c][n].participantId = v.caller
                  /\ circuits'[c].waitingQueue.failedContributions
                         = v.waitingQueue.failedContributions + 1
                  /\ circuits'[c].waitingQueue.completedContributions
                         = v.waitingQueue.completedContributions
                  /\ circuits'[c].avgTimings = v.avgTimings
                  /\ [circuit |-> c, zkeyIndex |-> contributionDocs'[c][n].zkeyIndex]
                         \notin blobStore']_vars

\* an invalid contribution of the contributor who uploaded its zkey, committed
\* after the Clock advanced
C19_Witness ==
    \E c \in Circuits :
        /\ verifyReturn.outcome = "success"
        /\ verifyReturn.circuit = c
        /\ participants[verifyReturn.caller].status = CONTRIBUTING
        /\ participants[verifyReturn.caller].contributionStep = VERIFYING
        /\ participants[verifyReturn.caller].verificationStartedAt < now
        /\ Len(contributionDocs[c]) = 1
        /\ ~contributionDocs[c][1].valid
        /\ circuits[c].waitingQueue.failedContributions = 1
        /\ circuits[c].waitingQueue.completedContributions = 0
        /\ blobStore = {}

\* C20: a verifycontribution commit on the finalization path (ceremony CLOSED,
\* caller the coordinator) creates a contribution document whose zkeyIndex is
\* the final-contribution token and leaves the circuit document as it is
\* (avgTimings, both counters, the waiting queue), valid or invalid.
C20_FinalizationLeavesCircuit ==
    [][\A s \in BusySlots :
           LET v == verifyRunning[s]
               c == v.circuit
               n == Len(contributionDocs'[c])
           IN (/\ verifyRunning'[s] = Idle
               /\ verifyReturn'.outcome = "success"
               /\ v.isFinalizing) =>
                  /\ n = Len(contributionDocs[c]) + 1
                  /\ contributionDocs'[c][n].zkeyIndex = finalContributionIndex
                  /\ circuits'[c] = circuits[c]]_vars

\* the finalizing coordinator's call committed on a circuit that has a valid
\* contribution
C20_Witness ==
    \E c \in Circuits :
        /\ ceremonyState = CLOSED
        /\ verifyReturn.outcome = "success"
        /\ verifyReturn.caller = Coordinator
        /\ verifyReturn.circuit = c
        /\ participants[Coordinator].status = FINALIZING
        /\ circuits[c].waitingQueue.completedContributions = 1
        /\ Len(contributionDocs[c]) = 2
        /\ contributionDocs[c][2].zkeyIndex = finalContributionIndex

\* new is the rolling mean of prev and the sample: the sample when prev is not
\* greater than 0, (prev + sample) / 2 otherwise (prev and new are num / 2^exp)
RollingMean(prev, sample, new) ==
    IF prev.num > 0
    THEN new.num * Pow2(prev.exp + 1) = (prev.num + sample * Pow2(prev.exp)) * Pow2(new.exp)
    ELSE new.num = sample * Pow2(new.exp)

\* C21: a valid non-finalizing verification sets each of the three avgTimings
\* fields to the sample when the value read is not greater than 0 and to
\* (value read + sample) / 2 otherwise; fullContribution averages of 0, 100, 200
\* with samples 100, 300, 500 become 100, 200, 350.
C21_RollingMeans ==
    [][\A s \in BusySlots :
           LET v == verifyRunning[s]
               c == v.circuit
               n == Len(contributionDocs'[c])
               full == v.verificationStartedAt - v.contributionStartedAt
               new == circuits'[c].avgTimings
           IN (/\ verifyRunning'[s] = Idle
               /\ verifyReturn'.outcome = "success"
               /\ ~v.isFinalizing
               /\ contributionDocs'[c][n].valid) =>
                  /\ RollingMean(v.avgTimings.fullContribution, full, new.fullContribution)
                  /\ RollingMean(v.avgTimings.contributionComputation,
                                 contributionDocs'[c][n].contributionComputationTime,
                                 new.contributionComputation)
                  /\ RollingMean(v.avgTimings.verifyCloudFunction, now - v.timerStart,
                                 new.verifyCloudFunction)
                  /\ (v.avgTimings.fullContribution = Timing(0) /\ full = 100)
                         => new.fullContribution = Timing(100)
                  /\ (v.avgTimings.fullContribution = Timing(100) /\ full = 300)
                         => new.fullContribution = Timing(200)
                  /\ (v.avgTimings.fullContribution = Timing(200) /\ full = 500)
                         => new.fullContribution = Timing(350)]_vars

\* the third valid contribution, with sample 500 on an average of 200, was
\* committed
C21_Witness ==
    /\ verifyReturn.outcome = "success"
    /\ Len(contributionDocs[1]) = 3
    /\ contributionDocs[1][3].valid
    /\ circuits[1].waitingQueue.completedContributions = 3
    /\ participants[verifyReturn.caller].verificationStartedAt
           - participants[verifyReturn.caller].contributionStartedAt = 500
    /\ circuits[1].avgTimings.fullContribution = Timing(350)
    /\ circuits[1].avgTimings.verifyCloudFunction.num > 0

\* the step is the commit of refresher invocation r
Refreshes(r) == r \in refreshRunning /\ r \notin refreshRunning'

\* C22: for a created contribution document, valid or not, the refresher's
\* commit sets the participant's status to DONE when the contributionProgress
\* it read + 1 exceeds the number of circuits and to CONTRIBUTED otherwise, and
\* contributionStep to COMPLETED, when the status it read is not FINALIZING;
\* when it is FINALIZING, status and contributionStep are left as they are.
C22_RefresherAdvances ==
    [][\A r \in refreshRunning :
           Refreshes(r) =>
               LET p == r.doc.participantId
               IN IF r.status # FINALIZING
                  THEN /\ participants'[p].status =
                              IF r.contributionProgress + 1 > NumCircuits THEN DONE
                              ELSE CONTRIBUTED
                       /\ participants'[p].contributionStep = COMPLETED
                  ELSE /\ participants'[p].status = participants[p].status
                       /\ participants'[p].contributionStep
                              = participants[p].contributionStep]_vars

\* the participant was refreshed to CONTRIBUTED after its document of the first
\* circuit and to DONE after an invalid document of the second circuit
C22_Witness ==
    \E p \in Participants :
        /\ participants[p].status = DONE
        /\ participants[p].contributionStep = COMPLETED
        /\ participants[p].contributionProgress = 2
        /\ Len(contributionDocs[1]) = 1
        /\ Len(contributionDocs[2]) = 1
        /\ contributionDocs[1][1].valid
        /\ ~contributionDocs[2][1].valid
        /\ contributionDocs[2][1].participantId = p
        /\ refreshTriggers = {}
        /\ refreshRunning = {}

\* the entries of participant p's contributions whose doc the step changes
Linked(p) ==
    {i \in DOMAIN participants[p].contributions :
        /\ i \in DOMAIN participants'[p].contributions
        /\ participants'[p].contributions[i].doc # participants[p].contributions[i].doc}

\* C23: each refresher invocation sets the doc of exactly one entry of
\* participant.contributions, the one with a hash, a computationTime and no doc,
\* to the id of the created document and leaves the other entries unchanged;
\* and whenever a verifier invocation has read the participant, exactly one
\* entry of the contributions it read has no doc.
C23_OneEntryLinked ==
    [][/\ \A r \in refreshRunning :
              Refreshes(r) =>
                  LET p == r.doc.participantId
                  IN /\ Len(participants'[p].contributions) = Len(participants[p].contributions)
                     /\ Cardinality(Linked(p)) = 1
                     /\ \A i \in Linked(p) :
                            /\ isContributionWithoutDocRef(participants[p].contributions[i])
                            /\ participants'[p].contributions[i].doc = r.doc.id
       /\ \A s \in Slots :
              verifyRunning'[s] # Idle =>
                  Cardinality({i \in DOMAIN verifyRunning'[s].contributions :
                                   verifyRunning'[s].contributions[i].doc = NoDoc}) = 1]_vars

\* the entries with a hash, a computationTime and no doc among those invocation
\* v of verifycontribution read
PartialRead(v) ==
    {i \in DOMAIN v.contributions :
        /\ v.contributions[i].hash
        /\ v.contributions[i].computationTime # 0
        /\ v.contributions[i].doc = NoDoc}

\* C24: a verifycontribution invocation that read a number of entries with a
\* hash, a computationTime and no doc other than 1 and whose contribution is
\* classified valid fails with an error and commits nothing; so an invocation
\* that read such a participant never creates a valid document, and the error
\* leaves contribution documents, circuit counters and avgTimings as they were.
C24_NoPartialNoValidDocument ==
    [][\A s \in BusySlots :
           LET v == verifyRunning[s]
               c == v.circuit
           IN (verifyRunning'[s] = Idle /\ Cardinality(PartialRead(v)) # 1) =>
                  \/ /\ verifyReturn'.outcome = "error"
                     /\ UNCHANGED <<contributionDocs, circuits, participants, refreshTriggers,
                                    blobStore>>
                  \/ /\ Len(contributionDocs'[c]) = Len(contributionDocs[c]) + 1
                     /\ ~contributionDocs'[c][Len(contributionDocs'[c])].valid]_vars

\* the verifier threw for a contributor at step VERIFYING with two entries
\* without doc
C24_Witness ==
    /\ verifyReturn.outcome = "error"
    /\ verifyReturn.thrownBy = "logAndThrowError"
    /\ participants[verifyReturn.caller].contributionStep = VERIFYING
    /\ Cardinality(PartialContributions(participants[verifyReturn.caller].contributions)) = 2
    /\ NumDocs = 0
    /\ circuits[verifyReturn.circuit].waitingQueue.completedContributions = 0

\* C25: the contributionComputationTime of a valid contribution document, and
\* the sample averaged into avgTimings.contributionComputation, is the
\* computationTime of the one entry without doc among the contributions the
\* invocation read, wherever that entry is in the sequence.
C25_TimeOfThePartialEntry ==
    [][\A s \in BusySlots :
           LET v == verifyRunning[s]
               c == v.circuit
               n == Len(contributionDocs'[c])
           IN (/\ verifyRunning'[s] = Idle
               /\ verifyReturn'.outcome = "success"
               /\ contributionDocs'[c][n].valid) =>
                  \A i \in PartialRead(v) :
                      /\ contributionDocs'[c][n].contributionComputationTime
                             = v.contributions[i].computationTime
                      /\ ~v.isFinalizing =>
                             RollingMean(v.avgTimings.contributionComputation,
                                         v.contributions[i].computationTime,
                                         circuits'[c].avgTimings.contributionComputation)]_vars

\* C26: a contribution document that exists is changed by no step but a
\* finalizeCircuit call of the coordinator that succeeds; that step changes one
\* document, a final contribution document of the circuit named in the call: it
\* keeps the fields of files the document had, adds the six of the verification
\* key and of the verifier contract, sets beacon to {value, hash of value} and
\* leaves every other field, every other document, the circuits and the
\* participants as they were. (getFinalContribution is not among the sources:
\* it is modelled from the specification's words.)
C26_OnlyTheFinalDocumentIsFinalized ==
    [][/\ \A c \in Circuits :
              /\ Len(contributionDocs'[c]) >= Len(contributionDocs[c])
              /\ \A i \in DOMAIN contributionDocs[c] :
                     contributionDocs'[c][i] # contributionDocs[c][i] =>
                         LET old == contributionDocs[c][i]
                             new == contributionDocs'[c][i]
                         IN /\ finalizeReturn'.outcome = "success"
                            /\ finalizeReturn'.caller = Coordinator
                            /\ finalizeReturn'.circuit = c
                            /\ old.zkeyIndex = finalContributionIndex
                            /\ old.files \subseteq new.files
                            /\ new.files = old.files \cup FinalizedFiles
                            /\ new.beacon = [value |-> finalizeReturn'.beacon,
                                             hash |-> <<"sha256", finalizeReturn'.beacon>>]
                            /\ new = [old EXCEPT !.files = new.files, !.beacon = new.beacon]
                            /\ \A d \in Circuits : \A j \in DOMAIN contributionDocs[d] :
                                   <<d, j>> # <<c, i>> =>
                                       contributionDocs'[d][j] = contributionDocs[d][j]
       /\ finalizeReturn'.outcome # "none" =>
              /\ UNCHANGED <<participants, circuits, ceremonyState, blobStore>>
              /\ \A c \in Circuits : Len(contributionDocs'[c]) = Len(contributionDocs[c])
      ]_vars

\* the coordinator's finalizeCircuit succeeded for a circuit that has a final
\* document with the ten fields of files and the beacon, next to the
\* coordinator's ordinary contribution document, which has neither
C26_Witness ==
    /\ finalizeReturn.outcome = "success"
    /\ \E i, j \in DOMAIN contributionDocs[finalizeReturn.circuit] :
           LET final == contributionDocs[finalizeReturn.circuit][i]
               other == contributionDocs[finalizeReturn.circuit][j]
           IN /\ final.zkeyIndex = finalContributionIndex
              /\ final.valid
              /\ final.files = VerifiedFiles \cup FinalizedFiles
              /\ final.beacon.value = finalizeReturn.beacon
              /\ other.zkeyIndex # finalContributionIndex
              /\ other.files = VerifiedFiles
              /\ other.beacon = NoBeacon

\* C27: in every state, a participant with status CONTRIBUTING who is the
\* currentContributor of a circuit has the contributionProgress that names that
\* circuit (circuits are keyed by sequencePosition + 1, as
\* getCircuitDocumentByPosition looks them up).
C27_ContributorProgressNamesCircuit ==
    \A c \in Circuits, p \in Participants :
        (/\ circuits[c].waitingQueue.currentContributor = p
         /\ participants[p].status = CONTRIBUTING) =>
            participants[p].contributionProgress = c

\* the number a string of decimal digits denotes (what parsing it as an integer gives)
DigitValue(ch) == CHOOSE d \in 0 .. 9 : DigitChar(d) = ch

RECURSIVE ParseInt(_)
ParseInt(index) ==
    IF index = <<>> THEN 0
    ELSE 10 * ParseInt(SubSeq(index, 1, Len(index) - 1)) + DigitValue(index[Len(index)])

RECURSIVE Pow10(_)
Pow10(k) == IF k = 0 THEN 1 ELSE 10 * Pow10(k - 1)

\* the number of decimal digits of n
RECURSIVE NumDigits(_)
NumDigits(n) == IF n < 10 THEN 1 ELSE 1 + NumDigits(n \div 10)

\* C28: for a non-negative integer n with no more decimal digits than the genesis
\* index has characters, formatZkeyIndex(n) has exactly the length of the genesis
\* index, is a run of "0" followed by the decimal digits of n (its last NumDigits(n)
\* characters denote n and begin with no "0" unless n = 0), and parsing it as an
\* integer gives n.
C28_ZeroPaddedIndex ==
    (/\ formatted.index # NotFormatted
     /\ formatted.progress < Pow10(Len(firstZkeyIndex))) =>
        LET n == formatted.progress
            index == formatted.index
            zeros == Len(firstZkeyIndex) - NumDigits(n)
        IN /\ Len(index) = Len(firstZkeyIndex)
           /\ \A i \in 1 .. Len(index) : \E d \in 0 .. 9 : index[i] = DigitChar(d)
           /\ \A i \in 1 .. zeros : index[i] = "0"
           /\ n > 0 => index[zeros + 1] # "0"
           /\ ParseInt(SubSeq(index, zeros + 1, Len(index))) = n
           /\ ParseInt(index) = n

\* formatZkeyIndex was applied to a number of three digits: two zeros were added
C28_Witness ==
    /\ formatted.progress = 101
    /\ formatted.index = <<"0", "0", "1", "0", "1">>

\* formatZkeyIndex was applied to a number of five digits: no zero was added
C28_WitnessFull ==
    /\ formatted.progress = 99999
    /\ formatted.index = <<"9", "9", "9", "9", "9">>

\* the state Scenario 1 ends in for participant u
SingleDone(u) ==
    /\ u \in Participants
    /\ Len(contributionDocs[1]) = 1
    /\ contributionDocs[1][1].zkeyIndex = <<"0", "0", "0", "0", "1">>
    /\ contributionDocs[1][1].valid
    /\ circuits[1].waitingQueue.completedContributions = 1
    /\ participants[u].status = DONE
    /\ circuits[1].waitingQueue.contributors = <<>>
    /\ circuits[1].waitingQueue.currentContributor = NoOne

\* C29: a single participant U, one circuit with an empty queue and zero
\* avgTimings, a worker whose output has the success marker: once U is READY,
\* the system reaches a state where the circuit has exactly one contribution
\* document, with zkeyIndex "00001" and valid, completedContributions = 1, U is
\* DONE, contributors is empty and there is no currentContributor. The handlers
\* are scheduled fairly; U's client makes its steps, records one computation
\* and calls verifycontribution once, and U is not timed out.
C29_SingleParticipantCompletes ==
    \A u \in Users :
        (u \in Participants /\ participants[u].status = READY) ~> SingleDone(u)

\* the end of Scenario 1 with every event handled
C29_Witness ==
    \E u \in Participants :
        /\ SingleDone(u)
        /\ participants[u].contributionStep = COMPLETED
        /\ participants[u].contributionProgress = 1
        /\ contributionDocs[1][1].participantId = u
        /\ coordTriggers = {}
        /\ coordRunning = {}
        /\ refreshTriggers = {}
        /\ refreshRunning = {}

\* C30: the commit of a verifycontribution invocation that is not finalizing
\* changes, inside the circuit's waitingQueue, only completedContributions and
\* failedContributions: contributors and currentContributor are after the commit
\* what they were just before it, whatever a coordinator invocation wrote
\* between the verifier's read of the circuit and its commit.
C30_VerifierKeepsTheQueue ==
    [][\A s \in BusySlots :
           LET v == verifyRunning[s]
               c == v.circuit
           IN (/\ verifyRunning'[s] = Idle
               /\ verifyReturn'.outcome = "success"
               /\ ~v.isFinalizing) =>
                  /\ circuits'[c].waitingQueue.contributors
                         = circuits[c].waitingQueue.contributors
                  /\ circuits'[c].waitingQueue.currentContributor
                         = circuits[c].waitingQueue.currentContributor]_vars

\* C31: for every circuit, no step decreases completedContributions or
\* failedContributions, also when a coordinate() invocation that read the circuit
\* before a verifier's commit writes its waitingQueue after that commit.
C31_CountersNeverDecrease ==
    [][\A c \in Circuits :
           /\ circuits'[c].waitingQueue.completedContributions
                  >= circuits[c].waitingQueue.completedContributions
           /\ circuits'[c].waitingQueue.failedContributions
                  >= circuits[c].waitingQueue.failedContributions]_vars

\* C32: single-participant coordination of a READY participant p who is the
\* currentContributor of the circuit the invocation read (Scenario A') leaves
\* waitingQueue.currentContributor equal to p and waitingQueue.contributors as
\* read.
C32_ResumeKeepsTheQueue ==
    [][\A r \in coordRunning :
           (/\ Commits(r)
            /\ isSingleParticipantCoordination(r)
            /\ r.msg.after.status = READY
            /\ r.waitingQueue.currentContributor = r.msg.id) =>
               /\ circuits'[r.circuit].waitingQueue.currentContributor = r.msg.id
               /\ circuits'[r.circuit].waitingQueue.contributors = r.waitingQueue.contributors
      ]_vars

\* C33: multi-participant coordination dispatched for a participant who is not
\* the currentContributor of the circuit the invocation read leaves
\* waitingQueue.contributors and waitingQueue.currentContributor as read and
\* writes no participant document.
C33_NotCurrentChangesNothing ==
    [][\A r \in coordRunning :
           (/\ Commits(r)
            /\ Classify(r.msg.before, r.msg.after) = "multi"
            /\ r.waitingQueue.currentContributor # r.msg.id) =>
               /\ circuits'[r.circuit].waitingQueue.contributors = r.waitingQueue.contributors
               /\ circuits'[r.circuit].waitingQueue.currentContributor
                      = r.waitingQueue.currentContributor
               /\ participants' = participants
      ]_vars

\* C34: in every state and for every circuit, waitingQueue.currentContributor
\* is empty exactly when waitingQueue.contributors is empty.
C34_CurrentIffQueued ==
    \A c \in Circuits :
        circuits[c].waitingQueue.currentContributor = NoOne
            <=> circuits[c].waitingQueue.contributors = <<>>

\* C35: every participant who is in a circuit's contributors with status
\* WAITING eventually is that circuit's currentContributor with status
\* CONTRIBUTING, when every contributor gets its contribution document and
\* the handlers are scheduled fairly, also after an earlier contributor timed
\* out and resumed.
C35_WaitingIsPromoted ==
    \A p \in Users : \A c \in {1} :
        (/\ p \in Range(circuits[c].waitingQueue.contributors)
         /\ participants[p].status = WAITING)
            ~> (/\ circuits[c].waitingQueue.currentContributor = p
                /\ participants[p].status = CONTRIBUTING)

\* the step is the end of a coordinate() invocation: a commit, or the commit of
\* the invocation the platform delivered again
CoordinatorWrites ==
    \/ \E r \in coordRunning : Commits(r)
    \/ redelivery.pending /\ redelivery'.delivered

\* C36: every participant document a coordinate() commit changes gets status
\* CONTRIBUTING or WAITING, the update is none of the five coordination events
\* of coordinateCeremonyParticipant, and so the commit leaves no new event to
\* handle: the events pending after it are those pending before it.
C36_OwnWritesAreIgnored ==
    [][CoordinatorWrites =>
           /\ \A p \in Participants :
                  participants'[p] # participants[p] =>
                      /\ participants'[p].status \in {CONTRIBUTING, WAITING}
                      /\ Classify(Snapshot(participants[p]), Snapshot(participants'[p])) = "none"
           /\ coordTriggers' \subseteq coordTriggers
      ]_vars

\* a coordinate() commit made p the CONTRIBUTING head of the queue after q was
\* DONE, and no event is left to handle
C36_Witness ==
    \E p, q \in Participants :
        /\ p # q
        /\ participants[q].status = DONE
        /\ participants[p].status = CONTRIBUTING
        /\ participants[p].contributionStep = DOWNLOADING
        /\ circuits[1].waitingQueue.contributors = <<p>>
        /\ circuits[1].waitingQueue.currentContributor = p
        /\ NumDocs > 0
        /\ coordTriggers = {}
        /\ coordRunning = {}

====
